---- MODULE Spec2Model ----
(***************************************************************************)
(* reposearch: the chunk store (internal/store), the model client          *)
(* (internal/ai) and the indexing pipeline (internal/indexer).             *)
(*                                                                         *)
(* Go strings are sequences of one-character strings, so that trimming,    *)
(* newline counting, extension lookup and substring tests are computed.    *)
(* Repository and ref labels are only ever compared for equality and are   *)
(* kept as plain strings.                                                  *)
(***************************************************************************)
EXTENDS Integers, Sequences, FiniteSets, TLC

(***************************************************************************)
(* Bounds of the model.                                                    *)
(***************************************************************************)
\* now() takes the values 1..MaxClock under direct store calls
MaxClock == 2
\* number of cmd/indexer processes one behaviour starts against a model that
\* may fail
MaxRuns == 2
\* number of cmd/indexer processes one behaviour starts with the stub provider
MaxStubRuns == 3
\* number of rows the relation holds when ranked searches are examined
MaxSearchRows == 2

(***************************************************************************)
(* strings                                                                 *)
(***************************************************************************)
UpperToLower ==
  [c \in {"A","B","C","D","E","F","G","H","I","J","K","L","M","N","O","P","Q",
          "R","S","T","U","V","W","X","Y","Z"} |->
     CASE c = "A" -> "a" [] c = "B" -> "b" [] c = "C" -> "c" [] c = "D" -> "d"
       [] c = "E" -> "e" [] c = "F" -> "f" [] c = "G" -> "g" [] c = "H" -> "h"
       [] c = "I" -> "i" [] c = "J" -> "j" [] c = "K" -> "k" [] c = "L" -> "l"
       [] c = "M" -> "m" [] c = "N" -> "n" [] c = "O" -> "o" [] c = "P" -> "p"
       [] c = "Q" -> "q" [] c = "R" -> "r" [] c = "S" -> "s" [] c = "T" -> "t"
       [] c = "U" -> "u" [] c = "V" -> "v" [] c = "W" -> "w" [] c = "X" -> "x"
       [] c = "Y" -> "y" [] c = "Z" -> "z"]

\* strings.ToLower
ToLower(s) ==
  [i \in 1..Len(s) |-> IF s[i] \in DOMAIN UpperToLower THEN UpperToLower[s[i]] ELSE s[i]]

\* unicode.IsSpace on the characters the model uses
IsSpace(c) ==
  c \in {" ", "\n", "\t", "\r"}

RECURSIVE TrimLeft(_)
TrimLeft(s) ==
  IF s # <<>> /\ IsSpace(Head(s)) THEN TrimLeft(Tail(s)) ELSE s

RECURSIVE TrimRight(_)
TrimRight(s) ==
  IF s # <<>> /\ IsSpace(s[Len(s)]) THEN TrimRight(SubSeq(s, 1, Len(s) - 1)) ELSE s

\* strings.TrimSpace
TrimSpace(s) ==
  TrimRight(TrimLeft(s))

\* strings.Count(s, c) for a one-character c
Count(s, c) ==
  Cardinality({i \in 1..Len(s) : s[i] = c})

\* strings.Contains
Contains(s, sub) ==
  \E i \in 1..(Len(s) - Len(sub) + 1) : SubSeq(s, i, i + Len(sub) - 1) = sub

\* strings.HasPrefix
HasPrefix(s, pre) ==
  Len(pre) <= Len(s) /\ SubSeq(s, 1, Len(pre)) = pre

\* filepath.Ext: the suffix from the last dot of the last path element
Ext(p) ==
  LET dots == {i \in 1..Len(p) : p[i] = "." /\ \A j \in i..Len(p) : p[j] # "/"}
  IN  IF dots = {} THEN <<>>
      ELSE LET i == CHOOSE d \in dots : \A e \in dots : e <= d
           IN  SubSeq(p, i, Len(p))

(***************************************************************************)
(* internal/indexer: pure helpers                                          *)
(***************************************************************************)
SkipDirs ==
  { <<"/","v","e","n","d","o","r","/">>,
    <<"/",".","g","i","t","/">>,
    <<"/",".","t","e","r","r","a","f","o","r","m","/">>,
    <<"/","n","o","d","e","_","m","o","d","u","l","e","s","/">>,
    <<"/","t","a","r","g","e","t","/">>,
    <<"/","b","u","i","l","d","/">>,
    <<"/","d","i","s","t","/">>,
    <<"/","o","u","t","/">>,
    <<"/","b","i","n","/">>,
    <<"/","o","b","j","/">>,
    <<"/",".","v","e","n","v","/">>,
    <<"/","v","e","n","v","/">>,
    <<"/","_","_","p","y","c","a","c","h","e","_","_","/">>,
    <<"/",".","p","y","t","e","s","t","_","c","a","c","h","e","/">>,
    <<"/",".","g","r","a","d","l","e","/">>,
    <<"/",".","m","2","/">>,
    <<"/",".","i","d","e","a","/">>,
    <<"/","c","o","v","e","r","a","g","e","/">>,
    <<"/",".","c","a","c","h","e","/">> }

SkipExts ==
  { <<".","p","n","g">>, <<".","j","p","g">>, <<".","j","p","e","g">>,
    <<".","g","i","f">>, <<".","p","d","f">>, <<".","w","e","b","p">>,
    <<".","l","o","c","k">>, <<".","z","i","p">>, <<".","s","v","g">>,
    <<".","e","x","e">>, <<".","d","l","l">>, <<".","x","m","l">>,
    <<".","s","u","m">>, <<".","m","o","d">>, <<".","s","q","l">> }

\* shouldSkip(path)
shouldSkip(path) ==
  LET p == ToLower(path)
  IN  \/ \E d \in SkipDirs : Contains(p, d)
      \/ Ext(p) \in SkipExts

LangTable ==
  { <<<<".","s","h">>, <<"s","h","e","l","l">>>>,
    <<<<".","p","y">>, <<"p","y","t","h","o","n">>>>,
    <<<<".","g","o">>, <<"g","o">>>>,
    <<<<".","m","d">>, <<"m","a","r","k","d","o","w","n">>>>,
    <<<<".","t","f">>, <<"t","e","r","r","a","f","o","r","m">>>>,
    <<<<".","j","s">>, <<"j","a","v","a","s","c","r","i","p","t">>>>,
    <<<<".","t","s">>, <<"t","y","p","e","s","c","r","i","p","t">>>>,
    <<<<".","j","a","v","a">>, <<"j","a","v","a">>>>,
    <<<<".","r","b">>, <<"r","u","b","y">>>>,
    <<<<".","y","a","m","l">>, <<"y","a","m","l">>>>,
    <<<<".","y","m","l">>, <<"y","a","m","l">>>>,
    <<<<".","j","s","o","n">>, <<"j","s","o","n">>>> }

\* guessLang(path)
guessLang(path) ==
  LET ext == ToLower(Ext(path))
  IN  IF \E e \in LangTable : e[1] = ext
      THEN (CHOOSE e \in LangTable : e[1] = ext)[2]
      ELSE IF ext # <<>> THEN Tail(ext) ELSE <<>>

\* rel(root, p) for the paths the walker hands out, which are root, or root
\* followed by "/" and the path below it; filepath.Rel's error falls back to p
rel(root, p) ==
  IF p = root THEN <<".">>
  ELSE IF HasPrefix(p, root \o <<"/">>) THEN SubSeq(p, Len(root) + 2, Len(p))
  ELSE p

\* naiveChunk with the line count taken to be the newline count
naiveChunk_NoPlusOne(path, content) ==
  << [Content |-> content, LineStart |-> 1, LineEnd |-> Count(content, "\n")] >>

\* naiveChunk(path, content): one chunk spanning the whole file
naiveChunk(path, content) ==
  << [Content |-> content, LineStart |-> 1, LineEnd |-> Count(content, "\n") + 1] >>

\* the length summarizeHeuristic truncates to
HeuristicMax == 240

\* summarizeHeuristic(s)
summarizeHeuristic(s) ==
  LET t == TrimSpace(s)
  IN  IF Len(t) > HeuristicMax THEN SubSeq(t, 1, HeuristicMax) ELSE t

\* hashContent(s): SHA-1 of the content, taken to be collision free
hashContent(s) ==
  <<"sha1", s>>

\* chunkID(path, a, b): SHA-1 of path + "#" + a + ":" + b, taken to be
\* collision free; neither the repository nor the ref enters the id
chunkID(path, a, b) ==
  <<"sha1", path, "#", a, ":", b>>

(***************************************************************************)
(* state                                                                   *)
(***************************************************************************)
VARIABLES
  rows,        \* the chunks relation: a set of row records
  schemaDim,   \* 0: no chunks relation yet; D: relation with summary_vec vector(D)
  clock,       \* the latest value now() has returned
  lastCall,    \* the last UpsertChunk / Migrate / Search call with its outcome
  tree,        \* the files below RepoRoot: absolute path -> content
  ix,          \* the Indexer of the current process: Repository, Ref, Client
  runPc,       \* where Indexer.Run stands: "idle", "walk", "close", "wait"
  toWalk,      \* the paths the walker has not handed to the callback yet
  workChan,    \* the buffered channel of work items
  chanClosed,  \* close(workChan) has happened
  wk,          \* the worker goroutines, each inside processWorkItem or receiving
  walkErr,     \* Walker.Walk returned an error
  runRet,      \* what the last Run returned: "none", "nil", "walkErr"
  budget,      \* how many more cmd/indexer processes the behaviour may start
  nSummarize,  \* Client.Summarize calls made by the current run
  nEmbed,      \* Client.Embed calls made by the current run
  ioOk,        \* no store call, file read or walk of the current run has failed
  aiOk,        \* every chunk of the current run got a summary and a vector
  again,       \* the run repeats the one before it: same Indexer, tree untouched
  prevAiOk,    \* aiOk of the previous run, when it ended
  treeDirty,   \* a file was written since the current run started
  rowsAtStart, \* the chunks relation as the current run found it
  fileLog,     \* the files the current run could not read, sent, upserted
  ctxDone      \* the context handed to Run has been cancelled

storeVars == <<rows, schemaDim, clock>>

runVars == <<ix, runPc, toWalk, workChan, chanClosed, wk, walkErr, runRet, budget>>

countVars == <<nSummarize, nEmbed>>

flagVars == <<ioOk, aiOk, again, prevAiOk, treeDirty, rowsAtStart, fileLog, ctxDone>>

vars ==
  <<rows, schemaDim, clock, lastCall, tree, ix, runPc, toWalk, workChan,
    chanClosed, wk, walkErr, runRet, budget, nSummarize, nEmbed, ioOk, aiOk,
    again, prevAiOk, treeDirty, rowsAtStart, fileLog, ctxDone>>

(***************************************************************************)
(* internal/store                                                          *)
(***************************************************************************)
\* a nil []float32 / a NULL summary_vec
NoVec == [dim |-> 0, of |-> <<>>]

\* a NULL timestamp
NullTime == 0

\* the columns of chunks_repo_path_span_ref_uidx
KeyOf(r) ==
  <<r.repository, r.ref, r.path, r.line_start, r.line_end>>

\* the row INSERT proposes for (c, summaryVec, contentHash) at time now
Excluded(c, summaryVec, contentHash, now) ==
  [ id            |-> c.ID,
    repository    |-> c.Repository,
    ref           |-> c.Ref,
    path          |-> c.Path,
    language      |-> c.Language,
    summary       |-> c.Summary,
    content       |-> c.Content,
    line_start    |-> c.LineStart,
    line_end      |-> c.LineEnd,
    summary_vec   |-> summaryVec,
    content_hash  |-> contentHash,
    summarized_at |-> IF c.Summary # <<>> THEN now ELSE NullTime,
    created_at    |-> now ]

\* a merge that takes the proposed summary even when it is empty
OnConflictUpdate_SummaryClobbered(old, ex) ==
  [ old EXCEPT
      !.language      = ex.language,
      !.content       = ex.content,
      !.content_hash  = ex.content_hash,
      !.summary       = ex.summary,
      !.summarized_at = IF ex.summarized_at # NullTime THEN ex.summarized_at
                        ELSE old.summarized_at,
      !.summary_vec   = IF ex.summary_vec # NoVec THEN ex.summary_vec
                        ELSE old.summary_vec,
      !.created_at    = old.created_at ]

\* a merge that takes the proposed vector even when it is NULL
OnConflictUpdate_VecClobbered(old, ex) ==
  [ old EXCEPT
      !.language      = ex.language,
      !.content       = ex.content,
      !.content_hash  = ex.content_hash,
      !.summary       = IF ex.summary # <<>> THEN ex.summary ELSE old.summary,
      !.summarized_at = IF ex.summarized_at # NullTime THEN ex.summarized_at
                        ELSE old.summarized_at,
      !.summary_vec   = ex.summary_vec,
      !.created_at    = old.created_at ]

\* a merge without the created_at = chunks.created_at line, as a REPLACE would do
OnConflictUpdate_CreatedAtReset(old, ex) ==
  [ old EXCEPT
      !.language      = ex.language,
      !.content       = ex.content,
      !.content_hash  = ex.content_hash,
      !.summary       = IF ex.summary # <<>> THEN ex.summary ELSE old.summary,
      !.summarized_at = IF ex.summarized_at # NullTime THEN ex.summarized_at
                        ELSE old.summarized_at,
      !.summary_vec   = IF ex.summary_vec # NoVec THEN ex.summary_vec
                        ELSE old.summary_vec,
      !.created_at    = ex.created_at ]

\* ON CONFLICT (repository, ref, path, line_start, line_end) DO UPDATE SET ...
OnConflictUpdate(old, ex) ==
  [ old EXCEPT
      !.language      = ex.language,
      !.content       = ex.content,
      !.content_hash  = ex.content_hash,
      !.summary       = IF ex.summary # <<>> THEN ex.summary ELSE old.summary,
      !.summarized_at = IF ex.summarized_at # NullTime THEN ex.summarized_at
                        ELSE old.summarized_at,
      !.summary_vec   = IF ex.summary_vec # NoVec THEN ex.summary_vec
                        ELSE old.summary_vec,
      !.created_at    = old.created_at ]

\* an upsert whose conflict target is the primary key, on a relation without
\* the unique index on the key columns
UpsertChunk_ConflictOnId(tbl, dim, c, summaryVec, contentHash, now) ==
  LET ex   == Excluded(c, summaryVec, contentHash, now)
      hits == {r \in tbl : r.id = ex.id}
  IN  IF dim = 0 THEN [rows |-> tbl, err |-> TRUE]
      ELSE IF summaryVec # NoVec /\ summaryVec.dim # dim THEN [rows |-> tbl, err |-> TRUE]
      ELSE IF hits # {}
        THEN [rows |-> (tbl \ hits) \cup {OnConflictUpdate(r, ex) : r \in hits},
              err  |-> FALSE]
      ELSE [rows |-> tbl \cup {ex}, err |-> FALSE]

\* Store.UpsertChunk as one SQL statement: the relation it leaves and whether
\* it returned an error.  The statement fails when the relation is missing,
\* when the vector does not have the column's dimension, and when the insert
\* collides on the primary key id without colliding on the arbiter index.
UpsertChunk(tbl, dim, c, summaryVec, contentHash, now) ==
  LET ex   == Excluded(c, summaryVec, contentHash, now)
      hits == {r \in tbl : KeyOf(r) = KeyOf(ex)}
  IN  IF dim = 0 THEN [rows |-> tbl, err |-> TRUE]
      ELSE IF summaryVec # NoVec /\ summaryVec.dim # dim THEN [rows |-> tbl, err |-> TRUE]
      ELSE IF hits # {}
        THEN [rows |-> (tbl \ hits) \cup {OnConflictUpdate(r, ex) : r \in hits},
              err  |-> FALSE]
      ELSE IF \E r \in tbl : r.id = ex.id THEN [rows |-> tbl, err |-> TRUE]
      ELSE [rows |-> tbl \cup {ex}, err |-> FALSE]

\* Store.Migrate(summaryDim): every statement is CREATE ... IF NOT EXISTS, so
\* an existing relation is left as it is and no error is returned; creating
\* the relation fails for a dimension below 1
Migrate(dim, summaryDim) ==
  IF dim # 0 THEN [dim |-> dim, err |-> FALSE]
  ELSE IF summaryDim < 1 THEN [dim |-> 0, err |-> TRUE]
  ELSE [dim |-> summaryDim, err |-> FALSE]

\* s LIKE pat with the default escape character: % is any run of characters,
\* _ any one character, a backslash takes the next character literally
RECURSIVE LikeMatch(_, _)
LikeMatch(s, pat) ==
  IF pat = <<>> THEN s = <<>>
  ELSE IF Head(pat) = "%"
    THEN \E i \in 0..Len(s) : LikeMatch(SubSeq(s, i + 1, Len(s)), Tail(pat))
  ELSE IF Head(pat) = "_"
    THEN s # <<>> /\ LikeMatch(Tail(s), Tail(pat))
  ELSE IF Head(pat) = "\\" /\ Len(pat) >= 2
    THEN s # <<>> /\ Head(s) = pat[2] /\ LikeMatch(Tail(s), SubSeq(pat, 3, Len(pat)))
  ELSE s # <<>> /\ Head(s) = Head(pat) /\ LikeMatch(Tail(s), Tail(pat))

\* path ILIKE '%' || sub || '%'
ILikeContains(path, sub) ==
  LikeMatch(ToLower(path), ToLower(<<"%">> \o sub \o <<"%">>))

\* the WHERE clause Search builds from the non-empty filters
MatchesFilters(r, opt) ==
  /\ opt.Repository # "" => r.repository = opt.Repository
  /\ opt.Language # <<>> => r.language = opt.Language
  /\ opt.PathContains # <<>> => ILikeContains(r.path, opt.PathContains)
  /\ opt.Ref # "" => r.ref = opt.Ref

\* the models.Chunk scanned from a result row
ScanChunk(r) ==
  [ ID |-> r.id, Repository |-> r.repository, Ref |-> r.ref, Path |-> r.path,
    Language |-> r.language, Summary |-> r.summary, Content |-> r.content,
    LineStart |-> r.line_start, LineEnd |-> r.line_end, CreatedAt |-> r.created_at ]

\* the sequences of n distinct members of S
RECURSIVE Arrangements(_, _)
Arrangements(S, n) ==
  IF n = 0 \/ S = {} THEN {<<>>}
  ELSE UNION {{<<x>> \o rest : rest \in Arrangements(S \ {x}, n - 1)} : x \in S}

\* the smaller of two integers
Min(a, b) ==
  IF a < b THEN a ELSE b

\* the characters of the tokens longestToken looks for, after lowering
TokenChars ==
  { "a","b","c","d","e","f","g","h","i","j","k","l","m","n","o","p","q","r",
    "s","t","u","v","w","x","y","z","0","1","2","3","4","5","6","7","8","9",
    ".","_","-" }

\* longestToken(s): the first of the longest runs of token characters of the
\* lowered string, "" when there is none
longestToken(s) ==
  LET l    == ToLower(s)
      runs == { <<i, j>> \in (1..Len(l)) \X (1..Len(l)) :
                  /\ i <= j
                  /\ \A n \in i..j : l[n] \in TokenChars
                  /\ (i = 1 \/ l[i - 1] \notin TokenChars)
                  /\ (j = Len(l) \/ l[j + 1] \notin TokenChars) }
  IN  IF runs = {} THEN <<>>
      ELSE LET best == CHOOSE r \in runs :
                         \A o \in runs : \/ o[2] - o[1] < r[2] - r[1]
                                         \/ (o[2] - o[1] = r[2] - r[1] /\ r[1] <= o[1])
           IN  SubSeq(l, best[1], best[2])

\* the words that make a query one that asks for scripts
ScriptWords ==
  { <<"s","c","r","i","p","t">>, <<"s","c","r","i","p","t","s">>, <<"b","a","s","h">>, <<"s","h","e","l","l">>, <<"c","o","d","e">>, <<"p","r","o","g","r","a","m">>, <<"p","r","o","g","r","a","m","s">>, <<"p","y","t","h","o","n">>, <<"c","l","i">> }

\* askedForScript
askedForScript(qtext) ==
  \E w \in ScriptWords : Contains(ToLower(qtext), w)

\* the languages script_bias raises and lowers
ScriptUp ==
  { <<"s","h","e","l","l">>, <<"b","a","s","h">>, <<"s","h">>, <<"p","y","t","h","o","n">>, <<"p","y">>, <<"g","o">> }

ScriptDown ==
  { <<"y","a","m","l">>, <<"t","e","r","r","a","f","o","r","m">>, <<"t","f">>, <<"j","s","o","n">> }

\* a script_bias that never moves a score
script_bias_Off(asked, language) ==
  0

\* script_bias of a candidate
script_bias(asked, language) ==
  IF ~asked THEN 0
  ELSE IF language \in ScriptUp THEN 1
  ELSE IF language \in ScriptDown THEN -1
  ELSE 0

\* the names of the noise_penalty pattern
NoiseNames ==
  { <<"s","a","m","p","l","e">>, <<"e","x","a","m","p","l","e">>, <<"t","e","s","t">>, <<"m","o","c","k">>, <<"f","i","x","t","u","r","e">>, <<"t","m","p">>, <<"t","e","m","p">>, <<"s","a","n","d","b","o","x">> }

\* noise_penalty: lower(path) ~ '(?:(^|.*/))(name)(/|\\.|$)', the pattern as
\* the raw Go string hands it to the server: a name that starts the path or
\* follows a "/", and is followed by a "/", by a backslash and one more
\* character, or by the end of the path
noise_penalty(path) ==
  LET p      == ToLower(path)
      starts == {i \in 1..Len(p) : i = 1 \/ p[i - 1] = "/"}
  IN  IF \E i \in starts, n \in NoiseNames :
           /\ i + Len(n) - 1 <= Len(p)
           /\ SubSeq(p, i, i + Len(n) - 1) = n
           /\ LET e == i + Len(n)
              IN  \/ e = Len(p) + 1
                  \/ p[e] = "/"
                  \/ (p[e] = "\\" /\ e + 1 <= Len(p))
      THEN 1 ELSE 0

\* the weights of the composite score, in hundredths
WSem == 80

WLex == 15

WTri == 5

WScript == 10

WNoise == 7

\* the values cosine similarity, ts_rank_cd and similarity() take after the
\* clamp to [0, 1], in halves; which one a row gets for a query is the
\* database's to say
SignalValues ==
  { [sem |-> 0, lex |-> 0, tri |-> 0],
    [sem |-> 1, lex |-> 0, tri |-> 2],
    [sem |-> 1, lex |-> 2, tri |-> 0],
    [sem |-> 2, lex |-> 0, tri |-> 0],
    [sem |-> 2, lex |-> 2, tri |-> 2] }

\* the cand CTE: the rows that pass the filters with their signals.  sig maps
\* the key of a row to what the database computes for it; a NULL summary_vec
\* gives sem_sim 0, an empty summary lex_sum 0, an empty tri_term tri 0
cand(tbl, opt, sig) ==
  LET qtext == TrimSpace(opt.QueryText)
  IN  { [ row           |-> r,
          sem_sim       |-> IF r.summary_vec = NoVec THEN 0 ELSE sig[KeyOf(r)].sem,
          lex_sum       |-> IF r.summary = <<>> THEN 0 ELSE sig[KeyOf(r)].lex,
          tri           |-> IF longestToken(qtext) = <<>> THEN 0 ELSE sig[KeyOf(r)].tri,
          script_bias   |-> script_bias(askedForScript(qtext), r.language),
          noise_penalty |-> noise_penalty(r.path) ] :
        r \in {x \in tbl : MatchesFilters(x, opt)} }

\* signals left as they are, divided by 1 instead of their maximum
MaxOr1_NoMax(S) ==
  1

\* MAX(...) OVER (), with NULLIF(max, 0) answered by a divisor of 1 under a
\* numerator that is 0
MaxOr1(S) ==
  LET m == CHOOSE x \in S : \A y \in S : y <= x
  IN  IF m = 0 THEN 1 ELSE m

\* the ranked CTE and the score of the final SELECT, as the fraction
\* num / (100 * den) with den the product of the three maxima
ranked(cs) ==
  LET mS == MaxOr1({c.sem_sim : c \in cs})
      mL == MaxOr1({c.lex_sum : c \in cs})
      mT == MaxOr1({c.tri : c \in cs})
  IN  { [ row |-> c.row, sem_sim |-> c.sem_sim, lex_sum |-> c.lex_sum,
          tri |-> c.tri, script_bias |-> c.script_bias,
          noise_penalty |-> c.noise_penalty,
          max_sem |-> mS, max_lex |-> mL, max_tri |-> mT,
          score |-> [ num |-> WSem * c.sem_sim * mL * mT
                              + WLex * c.lex_sum * mS * mT
                              + WTri * c.tri * mS * mL
                              + (WScript * c.script_bias - WNoise * c.noise_penalty)
                                  * mS * mL * mT,
                      den |-> mS * mL * mT ] ] :
        c \in cs }

\* ORDER BY score DESC: the orders the server may give, ties in any order
SortedByScore(rs) ==
  { p \in Arrangements(rs, Cardinality(rs)) :
      \A i \in 1..Len(p), j \in 1..Len(p) : i < j => p[i].score.num >= p[j].score.num }

\* the models.SearchResult scanned from a result row
ScanResult(c) ==
  [Chunk |-> ScanChunk(c.row), Score |-> c.score]

\* whether Search gets as far as a statement the server answers with rows
SearchRuns(tbl, dim, summaryVec, k, opt) ==
  /\ TrimSpace(opt.QueryText) # <<>>
  /\ dim # 0
  /\ k >= 0
  /\ summaryVec # NoVec
  /\ \A r \in {x \in tbl : MatchesFilters(x, opt)} :
       r.summary_vec = NoVec \/ r.summary_vec.dim = summaryVec.dim

\* a Search that tests the raw query text for emptiness
Search_NoTrim(tbl, dim, summaryVec, k, opt, sig) ==
  IF opt.QueryText = <<>> THEN {[res |-> <<>>, err |-> FALSE]}
  ELSE IF ~(dim # 0 /\ k >= 0 /\ summaryVec # NoVec
              /\ \A r \in {x \in tbl : MatchesFilters(x, opt)} :
                   r.summary_vec = NoVec \/ r.summary_vec.dim = summaryVec.dim)
    THEN {[res |-> <<>>, err |-> TRUE]}
  ELSE { [res |-> [i \in 1..Min(k, Len(p)) |-> ScanResult(p[i])], err |-> FALSE] :
           p \in SortedByScore(ranked(cand(tbl, opt, sig))) }

\* Store.Search(summaryVec, k, opt): the answers it can give.  An empty query
\* returns before any SQL.  The statement fails without the relation, for a
\* negative LIMIT, for the empty vector pgvector.NewVector(nil) encodes, and
\* when cosine_distance meets a stored vector of another dimension.  The rows
\* are the candidates in score order, cut to k.
Search(tbl, dim, summaryVec, k, opt, sig) ==
  IF TrimSpace(opt.QueryText) = <<>> THEN {[res |-> <<>>, err |-> FALSE]}
  ELSE IF ~SearchRuns(tbl, dim, summaryVec, k, opt)
    THEN {[res |-> <<>>, err |-> TRUE]}
  ELSE { [res |-> [i \in 1..Min(k, Len(p)) |-> ScanResult(p[i])], err |-> FALSE] :
           p \in SortedByScore(ranked(cand(tbl, opt, sig))) }

\* Store.GetChunkMeta(repository, path, ls, le): the results the query can
\* give.  The lookup leaves ref out and takes LIMIT 1 without an order, so
\* any matching row may answer.
GetChunkMeta(tbl, dim, repository, path, ls, le) ==
  LET hits == {r \in tbl : /\ r.repository = repository
                           /\ r.path = path
                           /\ r.line_start = ls
                           /\ r.line_end = le}
  IN  IF dim = 0
        THEN {[err |-> TRUE, found |-> FALSE, ContentHash |-> <<>>,
               Summary |-> <<>>, HasSummaryVec |-> FALSE]}
      ELSE IF hits = {}
        THEN {[err |-> FALSE, found |-> FALSE, ContentHash |-> <<>>,
               Summary |-> <<>>, HasSummaryVec |-> FALSE]}
      ELSE {[err |-> FALSE, found |-> TRUE, ContentHash |-> r.content_hash,
             Summary |-> r.summary, HasSummaryVec |-> r.summary_vec # NoVec] : r \in hits}

\* the answer of a store call whose connection failed
MetaFailed ==
  [err |-> TRUE, found |-> FALSE, ContentHash |-> <<>>, Summary |-> <<>>,
   HasSummaryVec |-> FALSE]

(***************************************************************************)
(* internal/ai: what a Client may answer                                   *)
(***************************************************************************)
\* the summary a model writes
ModelSummary == <<"s","u","m">>

\* strings.Split(s, "\n")
RECURSIVE Split(_)
Split(s) ==
  IF \E i \in 1..Len(s) : s[i] = "\n"
  THEN LET i == CHOOSE j \in 1..Len(s) : s[j] = "\n" /\ \A k \in 1..(j - 1) : s[k] # "\n"
       IN  <<SubSeq(s, 1, i - 1)>> \o Split(SubSeq(s, i + 1, Len(s)))
  ELSE <<s>>

\* the line count and the length StubClient.Summarize looks for
StubLines == 5

StubMinLen == 10

CodeFile == <<"C","o","d","e"," ","f","i","l","e",":"," ">>

\* StubClient.Summarize: the first comment line longer than StubMinLen among
\* the first StubLines lines, or "Code file: " + filePath
StubSummarize(filePath, content) ==
  LET lines == Split(content)
      n     == Min(StubLines, Len(lines))
      hit(i) == LET line == TrimSpace(lines[i])
                IN  /\ HasPrefix(line, <<"#">>) \/ HasPrefix(line, <<"/","/">>)
                    /\ Len(line) > StubMinLen
  IN  IF \E i \in 1..n : hit(i)
      THEN TrimSpace(lines[CHOOSE i \in 1..n : hit(i) /\ \A j \in 1..(i - 1) : ~hit(j)])
      ELSE CodeFile \o filePath

\* Client.Summarize: the stub's answer; from a model an error, a blank answer,
\* or a summary
SummarizeOutcomes(provider, filePath, content) ==
  IF provider = "stub"
  THEN { [s |-> StubSummarize(filePath, content), err |-> FALSE] }
  ELSE { [s |-> <<>>, err |-> TRUE],
         [s |-> <<" ">>, err |-> FALSE],
         [s |-> ModelSummary, err |-> FALSE] }

\* Client.Embed(text): the stub's zero vector; from a model an error (nil
\* vector), or the embedding of text in the client's dimension
EmbedOutcomes(provider, dim, text) ==
  IF provider = "stub"
  THEN { [dim |-> dim, of |-> <<>>] }
  ELSE { NoVec, [dim |-> dim, of |-> text] }

(***************************************************************************)
(* the inputs explored                                                     *)
(***************************************************************************)
Root == <<"/","r">>

PathA == <<"/","r","/","a",".","g","o">>

PathB == <<"/","r","/","b",".","s","h">>

PathBin == <<"/","r","/","b","i","n","/","c",".","g","o">>

Contents ==
  { <<"x">>, <<"y">>, <<"x","\n">>, <<" ">> }

\* the trees the indexer program starts from: one indexable file with any
\* content, alone or next to a file below a skipped directory
InitTrees ==
  { (PathA :> c) : c \in Contents }
    \cup { (PathA :> <<"x","\n">>) @@ (PathBin :> <<"x">>) }

\* a tree of two indexable files and one below a skipped directory
PoolTree ==
  (PathA :> <<"x">>) @@ (PathB :> <<"y">>) @@ (PathBin :> <<"x">>)

\* the Indexers cmd/indexer builds on a model provider: the same one again,
\* or another ref
IndexerConfigs ==
  { [RepoRoot |-> Root, Repository |-> "r1", Ref |-> ref, Dim |-> 2,
     Provider |-> "openai"] : ref \in {"main", "dev"} }

\* the Indexers cmd/indexer builds on the stub provider: the same one again,
\* another ref, another repository
StubConfigs ==
  { [RepoRoot |-> Root, Repository |-> "r1", Ref |-> "main", Dim |-> 2, Provider |-> "stub"],
    [RepoRoot |-> Root, Repository |-> "r1", Ref |-> "dev",  Dim |-> 2, Provider |-> "stub"],
    [RepoRoot |-> Root, Repository |-> "r2", Ref |-> "main", Dim |-> 2, Provider |-> "stub"] }

\* numWorkers: runtime.NumCPU() capped at 8; a two-core host
NumWorkers == 2

Workers == 1..NumWorkers

\* cap(workChan)
ChanCap == NumWorkers * 2

\* the cut processWorkItem applies to the text it hands to Summarize
SummarizeCap == 400000

(***************************************************************************)
(* Init                                                                    *)
(***************************************************************************)
NoCall == [op |-> "none"]

\* a worker between two items: no answer of GetChunkMeta yet, no call of the
\* client made for the item
Receiving ==
  [pc |-> "recv", path |-> <<>>, content |-> <<>>, needSummary |-> FALSE,
   needEmbed |-> FALSE, meta |-> [MetaFailed EXCEPT !.err = FALSE],
   summary |-> <<>>, vec |-> NoVec, summarizeCalls |-> 0, embedCalls |-> 0,
   summarizeFailed |-> FALSE]

Exited ==
  [Receiving EXCEPT !.pc = "exit"]

\* no file met yet
NoFiles == [unreadable |-> {}, sent |-> {}, upserted |-> {}]

\* no relation, no process yet
InitCommon ==
  /\ rows = {}
  /\ schemaDim = 0
  /\ clock = 0
  /\ lastCall = NoCall
  /\ ix = [RepoRoot |-> Root, Repository |-> "", Ref |-> "", Dim |-> 0,
            Provider |-> ""]
  /\ runPc = "idle"
  /\ toWalk = {}
  /\ workChan = <<>>
  /\ chanClosed = FALSE
  /\ wk = [w \in Workers |-> Exited]
  /\ walkErr = FALSE
  /\ runRet = "none"
  /\ nSummarize = 0
  /\ nEmbed = 0
  /\ ioOk = TRUE
  /\ aiOk = TRUE
  /\ again = FALSE
  /\ prevAiOk = FALSE
  /\ treeDirty = FALSE
  /\ rowsAtStart = {}
  /\ fileLog = NoFiles
  /\ ctxDone = FALSE

Init ==
  /\ InitCommon
  /\ tree \in InitTrees
  /\ budget = MaxRuns

(***************************************************************************)
(* cmd/indexer and Indexer.Run                                             *)
(***************************************************************************)
\* main(): build the Indexer, Migrate to the client's dimension, enter Run:
\* make the channels and start the workers.  The statements of one process
\* read the same now(); a later process reads a later one.
IndexerStart(cfg) ==
  /\ runPc = "idle"
  /\ budget > 0
  /\ LET m == Migrate(schemaDim, cfg.Dim)
     IN  /\ ~m.err
         /\ schemaDim' = m.dim
         /\ lastCall' = [op |-> "Migrate", summaryDim |-> cfg.Dim,
                         before |-> schemaDim, err |-> m.err]
  /\ clock' = clock + 1
  /\ ix' = cfg
  /\ runPc' = "walk"
  /\ toWalk' = DOMAIN tree
  /\ workChan' = <<>>
  /\ chanClosed' = FALSE
  /\ wk' = [w \in Workers |-> Receiving]
  /\ walkErr' = FALSE
  /\ runRet' = "none"
  /\ budget' = budget - 1
  /\ nSummarize' = 0
  /\ nEmbed' = 0
  /\ ioOk' = TRUE
  /\ aiOk' = TRUE
  /\ again' = (cfg = ix /\ ~treeDirty)
  /\ prevAiOk' = aiOk
  /\ treeDirty' = FALSE
  /\ rowsAtStart' = rows
  /\ fileLog' = NoFiles
  /\ ctxDone' = FALSE
  /\ UNCHANGED <<rows, tree>>

\* the walk callback on a file: skip it, or read it and send the work item;
\* the send blocks while the channel is full
WalkFile(p) ==
  /\ runPc = "walk"
  /\ p \in toWalk
  /\ toWalk' = toWalk \ {p}
  /\ \/ /\ shouldSkip(p)
        /\ UNCHANGED <<workChan, fileLog>>
     \/ /\ ~shouldSkip(p)
        /\ Len(workChan) < ChanCap
        /\ workChan' = Append(workChan, [path |-> p, content |-> tree[p]])
        /\ fileLog' = [fileLog EXCEPT !.sent = @ \cup {p}]
  /\ UNCHANGED <<storeVars, lastCall, tree, ix, runPc, chanClosed, wk, walkErr,
                 runRet, budget, countVars, ioOk, aiOk, again, prevAiOk,
                 treeDirty, rowsAtStart, ctxDone>>

\* the walk callback on a file FileReader.ReadFile cannot read: logged, skipped
WalkFileReadError(p) ==
  /\ runPc = "walk"
  /\ p \in toWalk
  /\ ~shouldSkip(p)
  /\ toWalk' = toWalk \ {p}
  /\ ioOk' = FALSE
  /\ fileLog' = [fileLog EXCEPT !.unreadable = @ \cup {p}]
  /\ UNCHANGED <<storeVars, lastCall, tree, ix, runPc, workChan, chanClosed, wk,
                 walkErr, runRet, budget, countVars, aiOk, again, prevAiOk,
                 treeDirty, rowsAtStart, ctxDone>>

\* Walker.Walk gives up with an error
WalkFail ==
  /\ runPc = "walk"
  /\ toWalk # {}
  /\ toWalk' = {}
  /\ walkErr' = TRUE
  /\ ioOk' = FALSE
  /\ UNCHANGED <<storeVars, lastCall, tree, ix, runPc, workChan, chanClosed, wk,
                 runRet, budget, countVars, aiOk, again, prevAiOk, treeDirty,
                 rowsAtStart, fileLog, ctxDone>>

\* a Run that closes the channel only after a walk without error
CloseWorkChan_OnSuccess ==
  /\ runPc = "walk"
  /\ toWalk = {}
  /\ chanClosed' = ~walkErr
  /\ runPc' = "wait"
  /\ UNCHANGED <<storeVars, lastCall, tree, ix, toWalk, workChan, wk, walkErr,
                 runRet, budget, countVars, flagVars>>

\* Walk has returned: close(workChan)
CloseWorkChan ==
  /\ runPc = "walk"
  /\ toWalk = {}
  /\ chanClosed' = TRUE
  /\ runPc' = "wait"
  /\ UNCHANGED <<storeVars, lastCall, tree, ix, toWalk, workChan, wk, walkErr,
                 runRet, budget, countVars, flagVars>>

\* a Run that returns without wg.Wait()
RunReturn_NoWait ==
  /\ runPc = "wait"
  /\ runRet' = IF walkErr THEN "walkErr" ELSE "nil"
  /\ runPc' = "idle"
  /\ UNCHANGED <<storeVars, lastCall, tree, ix, toWalk, workChan, chanClosed, wk,
                 walkErr, budget, countVars, flagVars>>

\* a Run that returns the first error a file met, as if processWorkItem
\* handed it to errorChan
RunReturn_FirstError ==
  /\ runPc = "wait"
  /\ \A w \in Workers : wk[w].pc = "exit"
  /\ runRet' = IF ~ioOk THEN "fileErr" ELSE IF walkErr THEN "walkErr" ELSE "nil"
  /\ runPc' = "idle"
  /\ UNCHANGED <<storeVars, lastCall, tree, ix, toWalk, workChan, chanClosed, wk,
                 walkErr, budget, countVars, flagVars>>

\* wg.Wait() is over; errorChan is empty because processWorkItem returns nil
\* on every path, so Run returns walkErr
RunReturn ==
  /\ runPc = "wait"
  /\ \A w \in Workers : wk[w].pc = "exit"
  /\ runRet' = IF walkErr THEN "walkErr" ELSE "nil"
  /\ runPc' = "idle"
  /\ UNCHANGED <<storeVars, lastCall, tree, ix, toWalk, workChan, chanClosed, wk,
                 walkErr, budget, countVars, flagVars>>

\* somebody writes a file between two runs; what is written between the same
\* two runs counts as one write
EditFile(p, c) ==
  /\ runPc = "idle"
  /\ ix.Dim # 0
  /\ budget > 0
  /\ ~treeDirty
  /\ p \in DOMAIN tree
  /\ tree[p] # c
  /\ tree' = [tree EXCEPT ![p] = c]
  /\ treeDirty' = TRUE
  /\ UNCHANGED <<storeVars, lastCall, runVars, countVars, ioOk, aiOk, again,
                 prevAiOk, rowsAtStart, fileLog, ctxDone>>

(***************************************************************************)
(* a worker: for item := range workChan { processWorkItem(ctx, item) }     *)
(***************************************************************************)
\* the chunk processWorkItem is working on
ChunkOf(w) ==
  naiveChunk(wk[w].path, wk[w].content)[1]

\* receive the next item, or leave the loop when the channel is closed and
\* drained
WorkerRecv(w) ==
  /\ wk[w].pc = "recv"
  /\ \/ /\ workChan # <<>>
        /\ wk' = [wk EXCEPT ![w] = [Receiving EXCEPT !.pc = "meta",
                                                      !.path = Head(workChan).path,
                                                      !.content = Head(workChan).content]]
        /\ workChan' = Tail(workChan)
     \/ /\ workChan = <<>>
        /\ chanClosed
        /\ wk' = [wk EXCEPT ![w] = Exited]
        /\ UNCHANGED workChan
  /\ UNCHANGED <<storeVars, lastCall, tree, ix, runPc, toWalk, chanClosed,
                 walkErr, runRet, budget, countVars, flagVars>>

\* where processWorkItem goes after the summary is settled
AfterSummary(needEmbed) ==
  IF needEmbed THEN "embed" ELSE "upsert"

\* a delta decision on the content hash alone
DecideDelta_HashOnly(w, meta) ==
  LET hash        == hashContent(ChunkOf(w).Content)
      needSummary == IF meta.err THEN TRUE
                     ELSE ~meta.found \/ meta.ContentHash # hash
      needEmbed   == needSummary
  IN  /\ wk' = [wk EXCEPT ![w].pc = IF needSummary THEN "summarize"
                                     ELSE AfterSummary(needEmbed),
                          ![w].needSummary = needSummary,
                          ![w].needEmbed = needEmbed,
                          ![w].meta = meta,
                          ![w].summary = IF needSummary THEN <<>> ELSE meta.Summary]
      /\ ioOk' = (ioOk /\ ~meta.err)

\* the delta decision on the answer of GetChunkMeta
DecideDelta(w, meta) ==
  LET hash        == hashContent(ChunkOf(w).Content)
      needSummary == IF meta.err THEN TRUE
                     ELSE ~meta.found \/ meta.ContentHash # hash \/ meta.Summary = <<>>
      needEmbed   == IF meta.err THEN TRUE
                     ELSE ~meta.found \/ meta.ContentHash # hash \/ ~meta.HasSummaryVec
  IN  /\ wk' = [wk EXCEPT ![w].pc = IF needSummary THEN "summarize"
                                     ELSE AfterSummary(needEmbed),
                          ![w].needSummary = needSummary,
                          ![w].needEmbed = needEmbed,
                          ![w].meta = meta,
                          ![w].summary = IF needSummary THEN <<>> ELSE meta.Summary]
      /\ ioOk' = (ioOk /\ ~meta.err)

\* GetChunkMeta and the delta decision
WorkerGetMeta(w) ==
  /\ wk[w].pc = "meta"
  /\ LET ch == ChunkOf(w)
     IN  \E meta \in GetChunkMeta(rows, schemaDim, ix.Repository,
                                  rel(ix.RepoRoot, wk[w].path),
                                  ch.LineStart, ch.LineEnd) :
           DecideDelta(w, meta)
  /\ UNCHANGED <<storeVars, lastCall, tree, ix, runPc, toWalk, workChan,
                 chanClosed, walkErr, runRet, budget, countVars, aiOk, again,
                 prevAiOk, treeDirty, rowsAtStart, fileLog, ctxDone>>

\* GetChunkMeta fails on the connection: both the summary and the vector are
\* taken to be needed
WorkerGetMetaFail(w) ==
  /\ wk[w].pc = "meta"
  /\ DecideDelta(w, MetaFailed)
  /\ UNCHANGED <<storeVars, lastCall, tree, ix, runPc, toWalk, workChan,
                 chanClosed, walkErr, runRet, budget, countVars, aiOk, again,
                 prevAiOk, treeDirty, rowsAtStart, fileLog, ctxDone>>

\* the text handed to Summarize
SummarizeInput(content) ==
  IF Len(content) > SummarizeCap THEN SubSeq(content, 1, SummarizeCap) ELSE content

\* a Summarize step that keeps the client's answer whatever it is
WorkerSummarize_NoFallback(w) ==
  /\ wk[w].pc = "summarize"
  /\ \E out \in SummarizeOutcomes(ix.Provider, rel(ix.RepoRoot, wk[w].path),
                                   SummarizeInput(ChunkOf(w).Content)) :
       /\ wk' = [wk EXCEPT ![w].pc = AfterSummary(wk[w].needEmbed),
                           ![w].summary = out.s,
                           ![w].summarizeCalls = @ + 1,
                           ![w].summarizeFailed = out.err \/ TrimSpace(out.s) = <<>>]
       /\ aiOk' = (aiOk /\ out.s # <<>>)
  /\ nSummarize' = nSummarize + 1
  /\ UNCHANGED <<storeVars, lastCall, tree, ix, runPc, toWalk, workChan,
                 chanClosed, walkErr, runRet, budget, nEmbed, ioOk, again,
                 prevAiOk, treeDirty, rowsAtStart, fileLog, ctxDone>>

\* Client.Summarize, with the heuristic when it fails or answers blank
WorkerSummarize(w) ==
  /\ wk[w].pc = "summarize"
  /\ \E out \in SummarizeOutcomes(ix.Provider, rel(ix.RepoRoot, wk[w].path),
                                   SummarizeInput(ChunkOf(w).Content)) :
       LET failed  == out.err \/ TrimSpace(out.s) = <<>>
           summary == IF ~failed THEN out.s
                      ELSE summarizeHeuristic(ChunkOf(w).Content)
       IN  /\ wk' = [wk EXCEPT ![w].pc = AfterSummary(wk[w].needEmbed),
                               ![w].summary = summary,
                               ![w].summarizeCalls = @ + 1,
                               ![w].summarizeFailed = failed]
           /\ aiOk' = (aiOk /\ summary # <<>>)
  /\ nSummarize' = nSummarize + 1
  /\ UNCHANGED <<storeVars, lastCall, tree, ix, runPc, toWalk, workChan,
                 chanClosed, walkErr, runRet, budget, nEmbed, ioOk, again,
                 prevAiOk, treeDirty, rowsAtStart, fileLog, ctxDone>>

\* Client.Embed(summary); its error is dropped and leaves a nil vector
WorkerEmbed(w) ==
  /\ wk[w].pc = "embed"
  /\ \E v \in EmbedOutcomes(ix.Provider, ix.Dim, wk[w].summary) :
       /\ wk' = [wk EXCEPT ![w].pc = "upsert", ![w].vec = v,
                           ![w].embedCalls = @ + 1]
       /\ aiOk' = (aiOk /\ v # NoVec)
  /\ nEmbed' = nEmbed + 1
  /\ UNCHANGED <<storeVars, lastCall, tree, ix, runPc, toWalk, workChan,
                 chanClosed, walkErr, runRet, budget, nSummarize, ioOk, again,
                 prevAiOk, treeDirty, rowsAtStart, fileLog, ctxDone>>

\* the models.Chunk processWorkItem builds
ChunkModel(w) ==
  LET ch      == ChunkOf(w)
      relPath == rel(ix.RepoRoot, wk[w].path)
  IN  [ ID         |-> chunkID(relPath, ch.LineStart, ch.LineEnd),
        Repository |-> ix.Repository,
        Ref        |-> ix.Ref,
        Path       |-> relPath,
        Language   |-> guessLang(wk[w].path),
        Summary    |-> wk[w].summary,
        Content    |-> ch.Content,
        LineStart  |-> ch.LineStart,
        LineEnd    |-> ch.LineEnd ]

\* whether UpsertChunk(c, ...) finds a row under its key
KeyExists(tbl, c) ==
  \E r \in tbl : KeyOf(r) = <<c.Repository, c.Ref, c.Path, c.LineStart, c.LineEnd>>

\* what a call record of UpsertChunk holds
UpsertCall(c, vec, hash, existed, err) ==
  [op |-> "UpsertChunk", c |-> c, vec |-> vec, hash |-> hash, existed |-> existed,
   err |-> err]

\* Store.UpsertChunk; an error is logged and the worker goes on to the next item
WorkerUpsert(w) ==
  /\ wk[w].pc = "upsert"
  /\ LET c    == ChunkModel(w)
         hash == hashContent(c.Content)
         res  == UpsertChunk(rows, schemaDim, c, wk[w].vec, hash, clock)
     IN  /\ rows' = res.rows
         /\ ioOk' = (ioOk /\ ~res.err)
         /\ lastCall' = UpsertCall(c, wk[w].vec, hash, KeyExists(rows, c), res.err)
  /\ wk' = [wk EXCEPT ![w] = Receiving]
  /\ fileLog' = [fileLog EXCEPT !.upserted = @ \cup {wk[w].path}]
  /\ UNCHANGED <<schemaDim, clock, tree, ix, runPc, toWalk, workChan, chanClosed,
                 walkErr, runRet, budget, countVars, aiOk, again, prevAiOk,
                 treeDirty, rowsAtStart, ctxDone>>

\* Store.UpsertChunk fails on the connection
WorkerUpsertFail(w) ==
  /\ wk[w].pc = "upsert"
  /\ LET c == ChunkModel(w)
     IN  lastCall' = UpsertCall(c, wk[w].vec, hashContent(c.Content),
                                KeyExists(rows, c), TRUE)
  /\ ioOk' = FALSE
  /\ wk' = [wk EXCEPT ![w] = Receiving]
  /\ fileLog' = [fileLog EXCEPT !.upserted = @ \cup {wk[w].path}]
  /\ UNCHANGED <<storeVars, tree, ix, runPc, toWalk, workChan, chanClosed,
                 walkErr, runRet, budget, countVars, aiOk, again, prevAiOk,
                 treeDirty, rowsAtStart, ctxDone>>

(***************************************************************************)
(* the indexer program on a store and a tree that answer                   *)
(***************************************************************************)
Next ==
  \/ \E cfg \in IndexerConfigs : IndexerStart(cfg)
  \/ \E p \in DOMAIN tree : WalkFile(p)
  \/ CloseWorkChan
  \/ RunReturn
  \/ \E p \in DOMAIN tree, c \in Contents : EditFile(p, c)
  \/ \E w \in Workers : WorkerRecv(w)
  \/ \E w \in Workers : WorkerGetMeta(w)
  \/ \E w \in Workers : WorkerSummarize(w)
  \/ \E w \in Workers : WorkerEmbed(w)
  \/ \E w \in Workers : WorkerUpsert(w)

Spec == Init /\ [][Next]_vars

(***************************************************************************)
(* the indexer program with the stub provider, which never fails           *)
(***************************************************************************)
InitStub ==
  /\ InitCommon
  /\ tree = (PathA :> <<"x">>)
  /\ budget = MaxStubRuns

NextStub ==
  \/ \E cfg \in StubConfigs : IndexerStart(cfg)
  \/ \E p \in DOMAIN tree : WalkFile(p)
  \/ CloseWorkChan
  \/ RunReturn
  \/ \E p \in DOMAIN tree, c \in Contents : EditFile(p, c)
  \/ \E w \in Workers : WorkerRecv(w)
  \/ \E w \in Workers : WorkerGetMeta(w)
  \/ \E w \in Workers : WorkerSummarize(w)
  \/ \E w \in Workers : WorkerEmbed(w)
  \/ \E w \in Workers : WorkerUpsert(w)

SpecStub == InitStub /\ [][NextStub]_vars

(***************************************************************************)
(* direct callers of the store: the API process, another indexer           *)
(***************************************************************************)
RelA == <<"a",".","g","o">>

\* the chunks direct callers upsert: the id the indexer derives, or another
DirectChunks ==
  { [ ID         |-> id,
      Repository |-> "r1",
      Ref        |-> "main",
      Path       |-> RelA,
      Language   |-> lang,
      Summary    |-> sum,
      Content    |-> content,
      LineStart  |-> 1,
      LineEnd    |-> 1 ] :
    id \in {chunkID(RelA, 1, 1), <<"uuid">>},
    lang \in {guessLang(RelA), <<>>},
    sum \in {<<>>, ModelSummary},
    content \in {<<"x">>, <<"y">>} }

\* the embedding dimensions direct callers use
Dims == {2, 3}

DirectVecs ==
  {NoVec} \cup {[dim |-> d, of |-> ModelSummary] : d \in Dims}

\* the values now() may take in the next statement of a direct caller
Nows ==
  {t \in {clock, clock + 1} : 1 <= t /\ t <= MaxClock}

\* a direct Store.Migrate(summaryDim)
StoreMigrate(summaryDim) ==
  /\ runPc = "idle"
  /\ LET m == Migrate(schemaDim, summaryDim)
     IN  /\ schemaDim' = m.dim
         /\ lastCall' = [op |-> "Migrate", summaryDim |-> summaryDim,
                         before |-> schemaDim, err |-> m.err]
  /\ UNCHANGED <<rows, clock, tree, runVars, countVars, flagVars>>

\* a direct Store.UpsertChunk(c, summaryVec, hashContent(c.Content)) whose
\* statement reads now
StoreUpsertAt(c, summaryVec, now) ==
  /\ LET hash == hashContent(c.Content)
         res  == UpsertChunk(rows, schemaDim, c, summaryVec, hash, now)
     IN  /\ rows' = res.rows
         /\ clock' = now
         /\ lastCall' = UpsertCall(c, summaryVec, hash, KeyExists(rows, c), res.err)
  /\ UNCHANGED <<schemaDim, tree, runVars, countVars, flagVars>>

\* a direct Store.UpsertChunk(c, summaryVec, hashContent(c.Content))
StoreUpsert(c, summaryVec) ==
  \E now \in Nows : StoreUpsertAt(c, summaryVec, now)

\* the queries, limits, vectors and filters direct callers search with
SearchOpts ==
  { [Repository |-> repo, Ref |-> "", Language |-> <<>>, PathContains |-> pc,
     QueryText |-> q] :
    repo \in {"", "r2"},
    pc \in {<<>>, <<"A">>},
    q \in {<<>>, <<" ">>, <<" ","x","\n">>} }

SearchLimits == {-1, 0, 1}

\* what the database may compute for the rows a Search ranks: a signal
\* triple for the key of every row that passes the filters
SignalTables(tbl, dim, summaryVec, k, opt) ==
  [ (IF SearchRuns(tbl, dim, summaryVec, k, opt)
     THEN {KeyOf(r) : r \in {x \in tbl : MatchesFilters(x, opt)}}
     ELSE {}) -> SignalValues ]

\* a direct Store.Search(summaryVec, k, opt).  A search leaves the relation as
\* it is, so what follows a search is what follows the call before it: one
\* search is examined after each Migrate and UpsertChunk.
StoreSearch(summaryVec, k, opt) ==
  /\ lastCall.op # "Search"
  /\ \E sig \in SignalTables(rows, schemaDim, summaryVec, k, opt) :
       \E out \in Search(rows, schemaDim, summaryVec, k, opt, sig) :
         lastCall' = [op |-> "Search", QueryText |-> opt.QueryText,
                      res |-> out.res, err |-> out.err]
  /\ UNCHANGED <<storeVars, tree, runVars, countVars, flagVars>>

NextStore ==
  \/ \E d \in Dims : StoreMigrate(d)
  \/ \E c \in DirectChunks, v \in DirectVecs : StoreUpsert(c, v)
  \/ \E v \in DirectVecs, k \in SearchLimits, opt \in SearchOpts : StoreSearch(v, k, opt)

InitStore ==
  /\ InitCommon
  /\ tree = PoolTree
  /\ budget = 0

SpecStore == InitStore /\ [][NextStore]_vars

(***************************************************************************)
(* ranked searches over a relation of a few rows                           *)
(***************************************************************************)
\* a chunk of one line at path, as the indexer builds it
ChunkAt(repository, path, language, summary) ==
  [ ID         |-> chunkID(path, 1, 1),
    Repository |-> repository,
    Ref        |-> "main",
    Path       |-> path,
    Language   |-> language,
    Summary    |-> summary,
    Content    |-> <<"x">>,
    LineStart  |-> 1,
    LineEnd    |-> 1 ]

\* the upserts that fill the relation: <<chunk, vector>>
SearchUpserts ==
  { <<ChunkAt("r1", <<"s","c","r","i","p","t","s","/","w","i","p","e",".","s","h">>, <<"s","h","e","l","l">>, ModelSummary),
      [dim |-> 2, of |-> ModelSummary]>>,
    <<ChunkAt("r1", <<"c","o","n","f","i","g","/","w","i","p","e",".","y","a","m","l">>, <<"y","a","m","l">>, ModelSummary),
      [dim |-> 2, of |-> ModelSummary]>>,
    <<ChunkAt("r1", <<"s","r","c","/","f","o","o",".","g","o">>, <<"g","o">>, ModelSummary),
      [dim |-> 2, of |-> ModelSummary]>>,
    <<ChunkAt("r1", <<"s","a","m","p","l","e","s","/","f","o","o",".","g","o">>, <<"g","o">>, ModelSummary),
      [dim |-> 2, of |-> ModelSummary]>>,
    <<ChunkAt("r2", <<"t","e","s","t","/","f","o","o",".","y","a","m","l">>, <<"y","a","m","l">>, <<>>), NoVec>> }

\* one more row, written in the tick of the rows before it
StorePopulate(u) ==
  /\ schemaDim # 0
  /\ Cardinality(rows) < MaxSearchRows
  /\ ~KeyExists(rows, u[1])
  /\ StoreUpsertAt(u[1], u[2], IF clock = 0 THEN 1 ELSE clock)

\* the options of the ranked searches: a query that asks for scripts, one
\* that does not, one without a token, and the filters
RankedOpts ==
  { [Repository |-> "", Ref |-> "", Language |-> <<>>, PathContains |-> <<>>,
     QueryText |-> q] : q \in {<<"s","c","r","i","p","t">>, <<"x">>, <<"!">>} }
  \cup
  { [Repository |-> "", Ref |-> "", Language |-> <<"g","o">>, PathContains |-> <<>>,
     QueryText |-> <<"x">>],
    [Repository |-> "", Ref |-> "", Language |-> <<>>, PathContains |-> <<"_">>,
     QueryText |-> <<"x">>],
    [Repository |-> "", Ref |-> "", Language |-> <<>>, PathContains |-> <<"F","O","O">>,
     QueryText |-> <<"x">>],
    [Repository |-> "r1", Ref |-> "main", Language |-> <<>>, PathContains |-> <<>>,
     QueryText |-> <<"x">>] }

RankedLimits == {0, 1, 2}

\* a direct Store.Search(summaryVec, k, opt), with the candidates the server
\* ranked for it kept.  A search leaves the relation as it is, so what
\* follows a search is what follows the write before it: one search is
\* examined after each write.
StoreSearchRanked(summaryVec, k, opt) ==
  /\ lastCall.op # "Search"
  /\ \E sig \in SignalTables(rows, schemaDim, summaryVec, k, opt) :
       \E out \in Search(rows, schemaDim, summaryVec, k, opt, sig) :
         lastCall' = [op |-> "Search", QueryText |-> opt.QueryText,
                      res |-> out.res, err |-> out.err, k |-> k, opt |-> opt,
                      ranked |-> IF SearchRuns(rows, schemaDim, summaryVec, k, opt)
                                 THEN ranked(cand(rows, opt, sig)) ELSE {}]
  /\ UNCHANGED <<storeVars, tree, runVars, countVars, flagVars>>

NextSearch ==
  \/ StoreMigrate(2)
  \/ \E u \in SearchUpserts : StorePopulate(u)
  \/ \E k \in RankedLimits, opt \in RankedOpts :
       StoreSearchRanked([dim |-> 2, of |-> <<"q">>], k, opt)

SpecSearch == InitStore /\ [][NextSearch]_vars

(***************************************************************************)
(* Service.Query between an ai.Client and a store.ChunkStore                *)
(***************************************************************************)
\* the nil error
NilErr == ""

\* the error of a failing Client.Embed
EmbedErr == "embedding service unavailable"

\* the errors of a failing Store.Search
StoreErrs == {"database connection failed", "context canceled"}

\* a nil []models.SearchResult
NilResult == [isNil |-> TRUE, items |-> <<>>]

\* math.IsNaN(score) || math.IsInf(score, 0), of a float64 score named by
\* its Go formatting
NonFinite(score) ==
  score \in {"NaN", "+Inf", "-Inf"}

\* a models.SearchResult
ResultOf(path, score) ==
  [Chunk |-> ChunkAt("r1", path, <<"g","o">>, ModelSummary), Score |-> score]

\* what Client.Embed(text) answers: a vector, an empty vector, an error, an
\* error next to a vector
EmbedKinds == {"vector", "empty", "error", "errorWithVector"}

QueryEmbed(kind, text) ==
  [ vec |-> IF kind \in {"vector", "errorWithVector"}
            THEN [dim |-> 2, of |-> text] ELSE NoVec,
    err |-> IF kind \in {"error", "errorWithVector"} THEN EmbedErr ELSE NilErr ]

\* what a ChunkStore's Search answers: a result (nil when no row was
\* scanned) and no error, or no result and an error
StoreAnswers ==
  { [res |-> r, err |-> NilErr] :
      r \in { NilResult,
              [isNil |-> FALSE, items |-> <<>>],
              [isNil |-> FALSE, items |-> <<ResultOf(<<"a",".","g","o">>, "0.95")>>],
              [isNil |-> FALSE, items |-> <<ResultOf(<<"a",".","g","o">>, "NaN"),
                                            ResultOf(<<"b",".","g","o">>, "0")>>],
              [isNil |-> FALSE, items |-> <<ResultOf(<<"a",".","g","o">>, "+Inf"),
                                            ResultOf(<<"b",".","g","o">>, "-Inf")>>] } }
  \cup { [res |-> NilResult, err |-> e] : e \in StoreErrs }

\* a Query that gives up when the embedding fails
Query_EmbedErrReturned(q, k, opt, kind, searchRet) ==
  LET qt == TrimSpace(q)
      o  == [opt EXCEPT !.QueryText = qt]
      e  == QueryEmbed(kind, qt)
  IN  IF e.err # NilErr
      THEN [ embedCalls |-> <<qt>>, embedRet |-> e, searchCalls |-> <<>>,
             searchRet |-> searchRet, res |-> NilResult, err |-> e.err ]
      ELSE [ embedCalls |-> <<qt>>, embedRet |-> e,
             searchCalls |-> << [head |-> e.vec, k |-> k, opt |-> o] >>,
             searchRet |-> searchRet,
             res |-> IF searchRet.err # NilErr THEN NilResult ELSE searchRet.res,
             err |-> searchRet.err ]

\* a Query that answers a store error with an empty result
Query_StoreErrSwallowed(q, k, opt, kind, searchRet) ==
  LET qt == TrimSpace(q)
      o  == [opt EXCEPT !.QueryText = qt]
      e  == QueryEmbed(kind, qt)
      head == IF e.err # NilErr THEN NoVec ELSE e.vec
  IN  [ embedCalls |-> <<qt>>, embedRet |-> e,
        searchCalls |-> << [head |-> head, k |-> k, opt |-> o] >>,
        searchRet |-> searchRet,
        res |-> IF searchRet.err # NilErr
                THEN [isNil |-> FALSE, items |-> <<>>] ELSE searchRet.res,
        err |-> NilErr ]

\* a Query that embeds and hands on the query as it came
Query_NoTrim(q, k, opt, kind, searchRet) ==
  LET o  == [opt EXCEPT !.QueryText = q]
      e  == QueryEmbed(kind, q)
      head == IF e.err # NilErr THEN NoVec ELSE e.vec
  IN  [ embedCalls |-> <<q>>, embedRet |-> e,
        searchCalls |-> << [head |-> head, k |-> k, opt |-> o] >>,
        searchRet |-> searchRet,
        res |-> IF searchRet.err # NilErr THEN NilResult ELSE searchRet.res,
        err |-> searchRet.err ]

\* Service.Query(ctx, q, k, opt) with a client that answers Embed as kind
\* says and a store that answers Search with searchRet: the calls it makes
\* and what it returns
Query(q, k, opt, kind, searchRet) ==
  LET qt == TrimSpace(q)
      o  == [opt EXCEPT !.QueryText = qt]
      e  == QueryEmbed(kind, qt)
      head == IF e.err # NilErr THEN NoVec ELSE e.vec
  IN  [ embedCalls |-> <<qt>>, embedRet |-> e,
        searchCalls |-> << [head |-> head, k |-> k, opt |-> o] >>,
        searchRet |-> searchRet,
        res |-> IF searchRet.err # NilErr THEN NilResult ELSE searchRet.res,
        err |-> searchRet.err ]

\* the queries, limits and options of the callers
QueryTexts ==
  { <<>>, <<"x">>, <<" ","x","\n">>, <<"\t","a"," ","b"," ">> }

QueryLimits == {-5, 0, 10}

QueryFilters ==
  { [Repository |-> "", Ref |-> "", Language |-> <<>>, PathContains |-> <<>>,
     QueryText |-> <<>>],
    [Repository |-> "r1", Ref |-> "main", Language |-> <<"g","o">>,
     PathContains |-> <<"s","r","c">>, QueryText |-> <<" ","o","l","d">>] }

\* a call of Service.Query
ServiceQuery(q, k, opt) ==
  /\ \E kind \in EmbedKinds, searchRet \in StoreAnswers :
       LET out == Query(q, k, opt, kind, searchRet)
       IN  lastCall' = [ op |-> "Query", q |-> q, k |-> k, opt |-> opt,
                         embedCalls |-> out.embedCalls, embedRet |-> out.embedRet,
                         searchCalls |-> out.searchCalls, searchRet |-> out.searchRet,
                         res |-> out.res, err |-> out.err ]
  /\ UNCHANGED <<storeVars, tree, runVars, countVars, flagVars>>

NextQuery ==
  \E q \in QueryTexts, k \in QueryLimits, opt \in QueryFilters : ServiceQuery(q, k, opt)

SpecQuery == InitStore /\ [][NextQuery]_vars

(***************************************************************************)
(* the paths the walker hands to shouldSkip                                *)
(***************************************************************************)
\* the values of Config.RepoRoot: the default ".", an absolute root, a
\* relative one, roots with a directory of a denylisted name above or in them
RepoRoots ==
  { <<".">>,
    <<"/","r">>,
    <<"r","e","p","o">>,
    <<"/","h","o","m","e","/","u","/","b","u","i","l","d","/","r","e","p","o">>,
    <<"/","R","/","V","e","n","d","o","r">> }

\* files below the root, by their path from it
FilesBelow ==
  { <<"m","a","i","n",".","g","o">>,
    <<"v","e","n","d","o","r","/","l","i","b",".","g","o">>,
    <<"V","e","n","d","o","r","/","l","i","b",".","g","o">>,
    <<".","g","i","t","/","c","o","n","f","i","g">>,
    <<"a","/","n","o","d","e","_","m","o","d","u","l","e","s","/","x",".","j","s">>,
    <<"i","m","a","g","e",".","p","n","g">>,
    <<"I","M","A","G","E",".","P","N","G">>,
    <<"g","o",".","m","o","d">>,
    <<"g","o",".","s","u","m">>,
    <<"R","E","A","D","M","E",".","m","d">>,
    <<"s","c","r","i","p","t",".","s","h">>,
    <<"v","e","n","d","o","r">>,
    <<"b","i","n","/","c",".","g","o">>,
    <<"b","i","n","x","/","c",".","g","o">>,
    <<"x","b","i","n","/","c",".","g","o">>,
    <<"s","r","c","/","b","u","i","l","d","/","a",".","g","o">>,
    <<"b","u","i","l","d",".","g","o">>,
    <<"a",".","b","/","c">>,
    <<"d","b","/","s","c","h","e","m","a",".","s","q","l">>,
    <<".","l","o","c","k">>,
    <<"o","u","t","/","x">>,
    <<"d","i","s","t","/","x",".","j","s">>,
    <<"d","o","c","s","/","a",".","p","d","f">>,
    <<"a",".","t","a","r",".","z","i","p">>,
    <<"v","e","n","d","o","r",".","g","o">>,
    <<"M","a","k","e","f","i","l","e">> }

\* the path Walker.Walk(RepoRoot, ...) hands to its callback for a file below
\* the root: filepath.Join of the cleaned root and the path from it
WalkPath(root, below) ==
  IF root = <<".">> THEN below ELSE root \o <<"/">> \o below

\* the walker's callback asks shouldSkip about a file
WalkerAsks(root, below) ==
  /\ lastCall' = [ op |-> "shouldSkip", root |-> root, below |-> below,
                   path |-> WalkPath(root, below),
                   ret |-> shouldSkip(WalkPath(root, below)) ]
  /\ UNCHANGED <<storeVars, tree, runVars, countVars, flagVars>>

NextSkip ==
  \E root \in RepoRoots, below \in FilesBelow : WalkerAsks(root, below)

SpecSkip == InitStore /\ [][NextSkip]_vars

(***************************************************************************)
(* one indexer run over a tree of several files while another process      *)
(* upserts under a key the run also writes                                 *)
(***************************************************************************)
\* the upserts of the other process: <<chunk, vector>>
ForeignUpserts ==
  { <<c, v>> \in DirectChunks \X DirectVecs :
      \/ c.ID = chunkID(RelA, 1, 1) /\ c.Summary = ModelSummary
           /\ c.Content = <<"y">> /\ c.Language = <<>>
           /\ v = [dim |-> 2, of |-> ModelSummary]
      \/ c.ID = <<"uuid">> /\ c.Summary = <<>> /\ c.Content = <<"x">>
           /\ c.Language = guessLang(RelA) /\ v = NoVec }

InitShared ==
  /\ InitCommon
  /\ tree = PoolTree
  /\ budget = 1

NextShared ==
  \/ \E cfg \in IndexerConfigs : IndexerStart(cfg)
  \/ \E p \in DOMAIN tree : WalkFile(p)
  \/ CloseWorkChan
  \/ RunReturn
  \/ \E w \in Workers : WorkerRecv(w)
  \/ \E w \in Workers : WorkerGetMeta(w)
  \/ \E w \in Workers : WorkerSummarize(w)
  \/ \E w \in Workers : WorkerEmbed(w)
  \/ \E w \in Workers : WorkerUpsert(w)
  \/ \E u \in ForeignUpserts : StoreUpsert(u[1], u[2])

SpecShared == InitShared /\ [][NextShared]_vars

(***************************************************************************)
(* one indexer run over a tree of several files, with a walker, a file     *)
(* reader, a model client and a store that may fail                        *)
(***************************************************************************)
NextFaults ==
  \/ \E cfg \in IndexerConfigs : IndexerStart(cfg)
  \/ \E p \in DOMAIN tree : WalkFile(p)
  \/ \E p \in DOMAIN tree : WalkFileReadError(p)
  \/ WalkFail
  \/ CloseWorkChan
  \/ RunReturn
  \/ \E w \in Workers : WorkerRecv(w)
  \/ \E w \in Workers : WorkerGetMeta(w)
  \/ \E w \in Workers : WorkerGetMetaFail(w)
  \/ \E w \in Workers : WorkerSummarize(w)
  \/ \E w \in Workers : WorkerEmbed(w)
  \/ \E w \in Workers : WorkerUpsert(w)
  \/ \E w \in Workers : WorkerUpsertFail(w)

SpecFaults == InitShared /\ [][NextFaults]_vars

(***************************************************************************)
(* summarizeHeuristic on chunk contents around the truncation length       *)
(***************************************************************************)
\* n copies of the character c
Rep(c, n) ==
  [i \in 1..n |-> c]

\* chunk contents: leading white space, a run of "x", possibly a gap and more
\* text after it, trailing white space
HeuristicInputs ==
  { lead \o Rep("x", n) \o mid \o trail :
      lead \in {<<>>, <<" ">>, <<"\n", "\t">>},
      n \in {0, 1, 2, HeuristicMax - 2, HeuristicMax - 1, HeuristicMax,
             HeuristicMax + 1, HeuristicMax + 60},
      mid \in {<<>>, <<" ", "y">>, <<" ", " ", "y", "y">>},
      trail \in {<<>>, <<" ">>, <<"\r", "\n">>} }

\* processWorkItem falls back on summarizeHeuristic(ch.Content)
HeuristicCall(s) ==
  /\ lastCall' = [op |-> "summarizeHeuristic", s |-> s, ret |-> summarizeHeuristic(s)]
  /\ UNCHANGED <<storeVars, tree, runVars, countVars, flagVars>>

NextHeuristic ==
  \E s \in HeuristicInputs : HeuristicCall(s)

SpecHeuristic == InitStore /\ [][NextHeuristic]_vars

(***************************************************************************)
(* the indexer program over a file that opens with a long comment line     *)
(***************************************************************************)
\* a comment line longer than the heuristic's truncation length
LongComment ==
  <<"/", "/">> \o Rep("x", HeuristicMax)

InitLong ==
  /\ InitCommon
  /\ tree = (PathA :> LongComment)
  /\ budget = MaxRuns

SpecLong == InitLong /\ [][NextStub]_vars

(***************************************************************************)
(* one run over more files than the channel holds, under a context that    *)
(* the caller may cancel                                                   *)
(***************************************************************************)
\* a tree of five indexable files, one more than cap(workChan)
WideTree ==
  [p \in {Root \o <<"/", n>> : n \in {"a", "b", "c", "d", "e"}} |-> <<"x">>]

InitPool ==
  /\ InitCommon
  /\ tree = WideTree
  /\ budget = 1

\* the caller cancels the context of a Run under way
CtxCancel ==
  /\ runPc \in {"walk", "wait"}
  /\ ~ctxDone
  /\ ctxDone' = TRUE
  /\ UNCHANGED <<storeVars, lastCall, tree, runVars, countVars, ioOk, aiOk,
                 again, prevAiOk, treeDirty, rowsAtStart, fileLog>>

\* the walk callback on a file when the context is cancelled: the select may
\* take <-ctx.Done(), the callback returns ctx.Err() and the walk ends
WalkFileCancelled(p) ==
  /\ runPc = "walk"
  /\ p \in toWalk
  /\ ~shouldSkip(p)
  /\ ctxDone
  /\ toWalk' = {}
  /\ walkErr' = TRUE
  /\ ioOk' = FALSE
  /\ UNCHANGED <<storeVars, lastCall, tree, ix, runPc, workChan, chanClosed, wk,
                 runRet, budget, countVars, aiOk, again, prevAiOk, treeDirty,
                 rowsAtStart, fileLog, ctxDone>>

\* the steps of the goroutines of Run: the walker, which may meet any of
\* files next, the close, the workers, the return
RunSteps(files) ==
  \/ \E p \in files : WalkFile(p)
  \/ \E p \in files : WalkFileCancelled(p)
  \/ CloseWorkChan
  \/ RunReturn
  \/ \E w \in Workers : WorkerRecv(w)
  \/ \E w \in Workers : WorkerGetMeta(w)
  \/ \E w \in Workers : WorkerSummarize(w)
  \/ \E w \in Workers : WorkerEmbed(w)
  \/ \E w \in Workers : WorkerUpsert(w)

\* what happens to a Run from outside: it is entered, its context is
\* cancelled, its walker fails
PoolEnv ==
  \/ \E cfg \in {c \in StubConfigs : c.Repository = "r1" /\ c.Ref = "main"} :
       IndexerStart(cfg)
  \/ CtxCancel
  \/ WalkFail

\* the directory may give its files in any order
NextPool ==
  \/ PoolEnv
  \/ RunSteps(DOMAIN tree)

SpecPool == InitPool /\ [][NextPool]_vars

\* the file the directory gives next, in an order that is fixed for the tree
DirOrder ==
  IF toWalk = {} THEN {} ELSE {CHOOSE p \in toWalk : TRUE}

NextPoolLive ==
  \/ PoolEnv
  \/ RunSteps(DirOrder)

\* the scheduler lets a goroutine of Run that can take a step take one
SpecPoolLive ==
  InitPool /\ [][NextPoolLive]_vars /\ WF_vars(RunSteps(DirOrder))

(***************************************************************************)
(* indexer processes of two refs of one repository upserting the chunk of  *)
(* one file, their statements committing in any order                      *)
(***************************************************************************)
\* the chunks processWorkItem builds for a.go under either ref
RaceChunks ==
  { [ ID         |-> chunkID(RelA, 1, 1),
      Repository |-> "r1",
      Ref        |-> ref,
      Path       |-> RelA,
      Language   |-> guessLang(RelA),
      Summary    |-> sum,
      Content    |-> content,
      LineStart  |-> 1,
      LineEnd    |-> 1 ] :
    ref \in {"main", "dev"},
    sum \in {<<>>, ModelSummary},
    content \in {<<"x">>, <<"y">>} }

NextRace ==
  \/ \E cfg \in IndexerConfigs : StoreMigrate(cfg.Dim)
  \/ \E c \in RaceChunks, cfg \in IndexerConfigs :
       \E v \in EmbedOutcomes(cfg.Provider, cfg.Dim, c.Summary) : StoreUpsert(c, v)

SpecRace == InitStore /\ [][NextRace]_vars

(***************************************************************************)
(* properties                                                              *)
(***************************************************************************)
\* the key a recorded UpsertChunk call addresses
CallKey(call) ==
  <<call.c.Repository, call.c.Ref, call.c.Path, call.c.LineStart, call.c.LineEnd>>

\* the non-skipped files of the tree
Indexable ==
  {p \in DOMAIN tree : ~shouldSkip(p)}

\* the key the current Indexer upserts the file p under
TupleOf(p) ==
  <<ix.Repository, ix.Ref, rel(ix.RepoRoot, p), 1, Count(tree[p], "\n") + 1>>

\* a run has returned and the tree is as that run saw it
RunOver ==
  runPc = "idle" /\ ix.Dim # 0 /\ ~treeDirty

\* C1: a run that repeats the run before it (same Indexer, same client, same
\* store, tree untouched) makes no Summarize and no Embed call.
C1_SecondRunNoCalls ==
  again => nSummarize = 0 /\ nEmbed = 0

\* C2: the chunks relation never holds two rows with the same
\* (repository, ref, path, line_start, line_end).
C2_UniqueKey ==
  \A r1 \in rows, r2 \in rows : KeyOf(r1) = KeyOf(r2) => r1 = r2

\* during a run, an upsert has landed on a key that already had a row, next
\* to a row of another key
C2_Witness ==
  /\ runPc \in {"walk", "wait"}
  /\ lastCall.op = "UpsertChunk" /\ lastCall.existed /\ ~lastCall.err
  /\ Cardinality(rows) >= 2

\* C3: once a run has returned, the store holds a row under the key
\* (repository, ref, path, 1, line count) of every indexable file of the
\* tree, also when an earlier run wrote the same path and span under another
\* repository or ref.
C3_RowPerTuple ==
  RunOver => \A p \in Indexable : \E r \in rows : KeyOf(r) = TupleOf(p)

\* C4: an UpsertChunk with an empty summary leaves the summary of an existing
\* row that has a non-empty one as it was.
C4_EmptySummaryKeepsStored ==
  [][ (lastCall'.op = "UpsertChunk" /\ lastCall'.c.Summary = <<>>)
        => \A r \in rows :
             (KeyOf(r) = CallKey(lastCall') /\ r.summary # <<>>)
               => \E r2 \in rows' : KeyOf(r2) = KeyOf(r) /\ r2.summary = r.summary ]_vars

\* an upsert with an empty summary has updated a row that keeps a summary
C4_Witness ==
  /\ lastCall.op = "UpsertChunk" /\ lastCall.existed /\ ~lastCall.err
  /\ lastCall.c.Summary = <<>>
  /\ \E r \in rows : /\ KeyOf(r) = CallKey(lastCall)
                     /\ r.summary # <<>>
                     /\ r.content = lastCall.c.Content
                     /\ r.created_at < clock

\* C5: an UpsertChunk with a nil vector leaves the vector of an existing row
\* that has one as it was.
C5_NilVectorKeepsStored ==
  [][ (lastCall'.op = "UpsertChunk" /\ lastCall'.vec = NoVec)
        => \A r \in rows :
             (KeyOf(r) = CallKey(lastCall') /\ r.summary_vec # NoVec)
               => \E r2 \in rows' : KeyOf(r2) = KeyOf(r) /\ r2.summary_vec = r.summary_vec ]_vars

\* an upsert with a nil vector has updated a row that keeps a vector
C5_Witness ==
  /\ lastCall.op = "UpsertChunk" /\ lastCall.existed /\ ~lastCall.err
  /\ lastCall.vec = NoVec
  /\ \E r \in rows : /\ KeyOf(r) = CallKey(lastCall)
                     /\ r.summary_vec # NoVec
                     /\ r.content = lastCall.c.Content
                     /\ r.created_at < clock

\* C6: an UpsertChunk that succeeds on an existing key sets content, language
\* and content_hash to the values of the call and leaves created_at as the
\* first insert set it.
C6_OverwriteKeepsCreatedAt ==
  [][ (lastCall'.op = "UpsertChunk" /\ lastCall'.existed /\ ~lastCall'.err)
        => \A r \in rows :
             KeyOf(r) = CallKey(lastCall')
               => \E r2 \in rows' : /\ KeyOf(r2) = KeyOf(r)
                                    /\ r2.content = lastCall'.c.Content
                                    /\ r2.language = lastCall'.c.Language
                                    /\ r2.content_hash = lastCall'.hash
                                    /\ r2.created_at = r.created_at ]_vars

\* a later upsert has changed the content of a row created earlier
C6_Witness ==
  /\ lastCall.op = "UpsertChunk" /\ lastCall.existed /\ ~lastCall.err
  /\ \E r \in rows : /\ KeyOf(r) = CallKey(lastCall)
                     /\ r.content_hash = hashContent(<<"y">>)
                     /\ r.language = <<>>
                     /\ r.created_at < clock
                     /\ r.summarized_at = clock

\* C7: a run that repeats the run before it over the untouched tree leaves
\* the chunks relation exactly as it found it, every column included.
C7_RerunLeavesRows ==
  (again /\ runPc = "idle") => rows = rowsAtStart

\* C8: a run into an empty store over a tree with one indexable file, for
\* which the client returned a summary and a vector, leaves exactly one row,
\* spanning lines 1..(newlines + 1), holding the whole file, a non-empty
\* summary and a vector, after one Summarize and one Embed call.
C8_FreshSingleFile ==
  (RunOver /\ rowsAtStart = {} /\ aiOk /\ Cardinality(Indexable) = 1)
    => /\ nSummarize = 1
       /\ nEmbed = 1
       /\ \E r \in rows :
            /\ rows = {r}
            /\ \A p \in Indexable :
                 /\ r.path = rel(ix.RepoRoot, p)
                 /\ r.content = tree[p]
                 /\ r.line_end = Count(tree[p], "\n") + 1
            /\ r.line_start = 1
            /\ r.summary # <<>>
            /\ r.summary_vec # NoVec

\* the first run over a two-line file, next to a skipped file, has returned
C8_Witness ==
  /\ RunOver /\ rowsAtStart = {} /\ aiOk
  /\ Cardinality(Indexable) = 1 /\ Cardinality(DOMAIN tree) = 2
  /\ \E r \in rows : r.line_end = 2

\* C9: Migrate(D) on a relation made for another dimension returns an error
\* and leaves the relation as it is.
C9_MigrateRejectsOtherDim ==
  (lastCall.op = "Migrate" /\ lastCall.before # 0 /\ lastCall.before # lastCall.summaryDim)
    => lastCall.err /\ schemaDim = lastCall.before

\* C10: Search with a query that is empty after trimming returns no result
\* and no error, for every vector, limit and filter the callers pass.
C10_EmptyQueryEmptyResult ==
  (lastCall.op = "Search" /\ TrimSpace(lastCall.QueryText) = <<>>)
    => lastCall.res = <<>> /\ ~lastCall.err

\* a whitespace query was answered on a store that holds a chunk
C10_Witness ==
  /\ lastCall.op = "Search" /\ lastCall.QueryText = <<" ">>
  /\ rows # {} /\ schemaDim # 0

(***************************************************************************)
(* properties of the ranked search                                         *)
(***************************************************************************)
\* a ranked Search that answered with rows
RankedCall ==
  /\ lastCall.op = "Search"
  /\ "ranked" \in DOMAIN lastCall
  /\ TrimSpace(lastCall.QueryText) # <<>>
  /\ lastCall.k >= 0
  /\ ~lastCall.err

\* the ranked candidates the result leaves out
LeftOut ==
  {c \in lastCall.ranked :
     \A i \in 1..Len(lastCall.res) : lastCall.res[i].Chunk # ScanChunk(c.row)}

\* C11: a Search with a non-empty query and k >= 0 returns at most k results;
\* every returned chunk has the repository, ref and language of the filters
\* that are set and a path that contains PathContains (in any case of the
\* letters); the scores do not increase along the result; no candidate left
\* out scores higher than a returned one.
C11_TopKFilteredOrdered ==
  RankedCall =>
    LET res == lastCall.res
        opt == lastCall.opt
    IN  /\ Len(res) <= lastCall.k
        /\ \A i \in 1..Len(res) :
             /\ opt.Repository # "" => res[i].Chunk.Repository = opt.Repository
             /\ opt.Ref # "" => res[i].Chunk.Ref = opt.Ref
             /\ opt.Language # <<>> => res[i].Chunk.Language = opt.Language
             /\ opt.PathContains # <<>> =>
                  Contains(ToLower(res[i].Chunk.Path), ToLower(opt.PathContains))
        /\ \A i \in 1..Len(res), j \in 1..Len(res) :
             i < j => res[i].Score.num >= res[j].Score.num
        /\ \A c \in LeftOut : \A i \in 1..Len(res) : c.score.num <= res[i].Score.num

\* C12 as stated: every normalized signal lies in [0, 1] and every returned
\* score lies in [-0.07, 1.10].
C12_ScoreRangeStated ==
  RankedCall =>
    /\ \A c \in lastCall.ranked :
         /\ 0 <= c.sem_sim /\ c.sem_sim <= c.max_sem
         /\ 0 <= c.lex_sum /\ c.lex_sum <= c.max_lex
         /\ 0 <= c.tri /\ c.tri <= c.max_tri
    /\ \A i \in 1..Len(lastCall.res) :
         LET sc == lastCall.res[i].Score
         IN  -7 * sc.den <= sc.num /\ sc.num <= 110 * sc.den

\* C12 amended: every normalized signal lies in [0, 1] and every returned
\* score lies in [-0.17, 1.10].
C12_ScoreRange ==
  RankedCall =>
    /\ \A c \in lastCall.ranked :
         /\ 0 <= c.sem_sim /\ c.sem_sim <= c.max_sem
         /\ 0 <= c.lex_sum /\ c.lex_sum <= c.max_lex
         /\ 0 <= c.tri /\ c.tri <= c.max_tri
    /\ \A i \in 1..Len(lastCall.res) :
         LET sc == lastCall.res[i].Score
         IN  -17 * sc.den <= sc.num /\ sc.num <= 110 * sc.den

\* a search has returned a score of -0.17 next to one of 1.10
C12_Witness ==
  /\ RankedCall
  /\ \E i \in 1..Len(lastCall.res) :
       lastCall.res[i].Score.num = -17 * lastCall.res[i].Score.den
  /\ \E i \in 1..Len(lastCall.res) :
       lastCall.res[i].Score.num = 110 * lastCall.res[i].Score.den

\* a candidate in shell, python or go and one in yaml, terraform or json with
\* the same sem_sim, lex_sum, tri and noise_penalty, under a query that
\* contains "script"
ScriptPair(a, b) ==
  /\ Contains(ToLower(lastCall.QueryText), <<"s","c","r","i","p","t">>)
  /\ a.row.language \in { <<"s","h","e","l","l">>, <<"p","y","t","h","o","n">>, <<"g","o">> }
  /\ b.row.language \in { <<"y","a","m","l">>, <<"t","e","r","r","a","f","o","r","m">>, <<"j","s","o","n">> }
  /\ a.sem_sim = b.sem_sim /\ a.lex_sum = b.lex_sum /\ a.tri = b.tri
  /\ a.noise_penalty = b.noise_penalty

\* C13: under a query that contains "script", of two candidates that differ
\* only in language, the one in shell, python or go scores at least 0.10
\* above the one in yaml, terraform or json, and comes before it in the
\* result.
C13_ScriptBiasRanks ==
  RankedCall =>
    \A a \in lastCall.ranked, b \in lastCall.ranked :
      ScriptPair(a, b) =>
        /\ a.score.num - b.score.num >= 10 * a.score.den
        /\ \A j \in 1..Len(lastCall.res) :
             lastCall.res[j].Chunk = ScanChunk(b.row) =>
               \E i \in 1..(j - 1) : lastCall.res[i].Chunk = ScanChunk(a.row)

\* a shell chunk and a yaml chunk with the same signals were both returned
C13_Witness ==
  /\ RankedCall
  /\ Len(lastCall.res) = 2
  /\ \E a \in lastCall.ranked, b \in lastCall.ranked :
       /\ ScriptPair(a, b)
       /\ a.sem_sim = 1
       /\ lastCall.res[1].Chunk = ScanChunk(a.row)
       /\ lastCall.res[2].Chunk = ScanChunk(b.row)

\* C14: of two candidates with the same sem_sim, lex_sum, tri and script_bias,
\* one at src/foo.go and one at samples/foo.go, the second scores exactly
\* 0.07 below the first.
C14_SamplesPenalty ==
  RankedCall =>
    \A a \in lastCall.ranked, b \in lastCall.ranked :
      ( /\ a.row.path = <<"s","r","c","/","f","o","o",".","g","o">>
        /\ b.row.path = <<"s","a","m","p","l","e","s","/","f","o","o",".","g","o">>
        /\ a.sem_sim = b.sem_sim /\ a.lex_sum = b.lex_sum /\ a.tri = b.tri
        /\ a.script_bias = b.script_bias )
      => a.score.num - b.score.num = 7 * a.score.den

\* a call of Service.Query has returned
QueryCall ==
  lastCall.op = "Query"

\* C15: when Client.Embed returns an error, Service.Query does not return
\* that error; it calls Store.Search exactly once, with a nil vector and the
\* trimmed query text, and returns what Store.Search returned.
C15_EmbedErrorDegrades ==
  (QueryCall /\ lastCall.embedRet.err # NilErr) =>
    /\ lastCall.err # lastCall.embedRet.err
    /\ Len(lastCall.searchCalls) = 1
    /\ lastCall.searchCalls[1].head = NoVec
    /\ lastCall.searchCalls[1].opt.QueryText = TrimSpace(lastCall.q)
    /\ lastCall.res = lastCall.searchRet.res
    /\ lastCall.err = lastCall.searchRet.err

\* Embed failed next to a vector, on a query with whitespace around it, and
\* the store's one result came back
C15_Witness ==
  /\ QueryCall
  /\ lastCall.embedRet.err = EmbedErr
  /\ lastCall.embedRet.vec # NoVec
  /\ lastCall.q # TrimSpace(lastCall.q)
  /\ lastCall.err = NilErr
  /\ Len(lastCall.res.items) = 1

\* C16: when Store.Search returns an error, a context cancellation included,
\* Service.Query returns that error and a nil result.
C16_StoreErrorReturned ==
  (QueryCall /\ Len(lastCall.searchCalls) = 1 /\ lastCall.searchRet.err # NilErr) =>
    /\ lastCall.err = lastCall.searchRet.err
    /\ lastCall.res = NilResult

\* the store answered an embedded query with a context cancellation
C16_Witness ==
  /\ QueryCall
  /\ lastCall.embedRet.err = NilErr
  /\ Len(lastCall.searchCalls) = 1
  /\ lastCall.searchRet.err = "context canceled"
  /\ lastCall.err = "context canceled"

\* C17: Service.Query embeds the query without its leading and trailing
\* whitespace, hands the vector and that text as opts.QueryText to
\* Store.Search with k and the repository, ref, language and path filters as
\* they came, and on success returns the store's result as it is.
C17_TrimmedPassThrough ==
  QueryCall =>
    /\ lastCall.embedCalls = <<TrimSpace(lastCall.q)>>
    /\ Len(lastCall.searchCalls) = 1
    /\ LET c == lastCall.searchCalls[1]
       IN  /\ c.opt.QueryText = TrimSpace(lastCall.q)
           /\ c.k = lastCall.k
           /\ c.opt.Repository = lastCall.opt.Repository
           /\ c.opt.Ref = lastCall.opt.Ref
           /\ c.opt.Language = lastCall.opt.Language
           /\ c.opt.PathContains = lastCall.opt.PathContains
           /\ lastCall.embedRet.err = NilErr => c.head = lastCall.embedRet.vec
    /\ lastCall.searchRet.err = NilErr =>
         lastCall.res = lastCall.searchRet.res /\ lastCall.err = NilErr

\* a query with whitespace around it and every filter set was embedded and
\* the store's result returned
C17_Witness ==
  /\ QueryCall
  /\ lastCall.q = <<"\t","a"," ","b"," ">>
  /\ lastCall.opt.Repository = "r1"
  /\ lastCall.k = 10
  /\ lastCall.embedRet = [vec |-> [dim |-> 2, of |-> <<"a"," ","b">>], err |-> NilErr]
  /\ lastCall.err = NilErr
  /\ Len(lastCall.res.items) = 1

\* C18: every score in a result Service.Query returns is finite.
C18_ScoresFinite ==
  QueryCall =>
    \A i \in 1..Len(lastCall.res.items) : ~NonFinite(lastCall.res.items[i].Score)

\* the segments of a path between its "/"
RECURSIVE Segments(_)
Segments(p) ==
  IF \E i \in 1..Len(p) : p[i] = "/"
  THEN LET i == CHOOSE j \in 1..Len(p) : p[j] = "/" /\ \A k \in 1..(j - 1) : p[k] # "/"
       IN  <<SubSeq(p, 1, i - 1)>> \o Segments(SubSeq(p, i + 1, Len(p)))
  ELSE <<p>>

\* the denylisted directory names
DenyNames ==
  {SubSeq(d, 2, Len(d) - 1) : d \in SkipDirs}

\* C19: a file the walker hands over is skipped exactly when, below the
\* repository root, one of its directory segments is a denylisted name in
\* any case of the letters, or its extension is in the binary/noise set;
\* whether the root is absolute or relative, and whatever lies above it.
C19_SkipBelowRoot ==
  lastCall.op = "shouldSkip" =>
    LET segs == Segments(lastCall.below)
    IN  lastCall.ret =
          ( \/ \E i \in 1..(Len(segs) - 1) : ToLower(segs[i]) \in DenyNames
            \/ Ext(ToLower(lastCall.below)) \in SkipExts )

\* C20: Run returns the walker's error when the walk failed and nil when it
\* did not, whatever the files met; and when the walk did not fail, every
\* file that is not skipped and could be read has gone through to its
\* UpsertChunk call, whatever failed on the others.
C20_RunOutlivesFileErrors ==
  (runPc = "idle" /\ runRet # "none") =>
    /\ runRet = IF walkErr THEN "walkErr" ELSE "nil"
    /\ ~walkErr =>
         fileLog.upserted = {p \in DOMAIN tree : ~shouldSkip(p)} \ fileLog.unreadable

\* a run in which a store call and a model call failed has upserted both
\* files and returned nil
C20_Witness ==
  /\ runPc = "idle"
  /\ runRet = "nil"
  /\ ~ioOk
  /\ ~aiOk
  /\ lastCall.op = "UpsertChunk"
  /\ fileLog.upserted = {PathA, PathB}

\* C30: for every input string, summarizeHeuristic returns a string of at
\* most 240 characters that has no leading and no trailing white space and
\* is a prefix of the input with its white space trimmed.
C30_HeuristicTrimmedPrefix ==
  lastCall.op = "summarizeHeuristic" =>
    LET ret == lastCall.ret
    IN  /\ Len(ret) <= HeuristicMax
        /\ ret # <<>> => (~IsSpace(ret[1]) /\ ~IsSpace(ret[Len(ret)]))
        /\ HasPrefix(TrimSpace(lastCall.s), ret)

\* C21: every summary the indexer persists is at most 240 characters long,
\* whether it came from the model client or from the heuristic.
C21_SummaryLength ==
  \A r \in rows : Len(r.summary) <= HeuristicMax

\* C22: for a chunk whose GetChunkMeta call succeeded, Summarize is called
\* exactly once when the lookup found no row, found another content hash or
\* found an empty summary, and otherwise not at all, the summary found being
\* taken over; Embed is called exactly once when the lookup found no row,
\* found another content hash or found no vector, and otherwise not at all,
\* the chunk going to UpsertChunk without a vector.
C22_DeltaCalls ==
  \A w \in Workers :
    LET m == wk[w].meta
    IN  /\ wk[w].summarizeCalls <= 1
        /\ wk[w].embedCalls <= 1
        /\ (wk[w].pc = "upsert" /\ ~m.err) =>
             LET hash      == hashContent(ChunkOf(w).Content)
                 wantsSum  == ~m.found \/ m.ContentHash # hash \/ m.Summary = <<>>
                 wantsVec  == ~m.found \/ m.ContentHash # hash \/ ~m.HasSummaryVec
             IN  /\ wk[w].summarizeCalls = IF wantsSum THEN 1 ELSE 0
                 /\ ~wantsSum => wk[w].summary = m.Summary
                 /\ wk[w].embedCalls = IF wantsVec THEN 1 ELSE 0
                 /\ ~wantsVec => wk[w].vec = NoVec

\* a chunk found with its hash and a summary but without a vector has been
\* embedded once and not summarized
C22_Witness ==
  \E w \in Workers :
    /\ wk[w].pc = "upsert"
    /\ wk[w].meta.found
    /\ wk[w].meta.Summary # <<>>
    /\ wk[w].summarizeCalls = 0
    /\ wk[w].embedCalls = 1
    /\ wk[w].summary = wk[w].meta.Summary

\* the item of worker w goes to UpsertChunk with the summary and the vector
\* the worker holds
UpsertsItem(w) ==
  (wk[w].pc = "upsert" /\ wk'[w].pc # "upsert") =>
    /\ lastCall'.op = "UpsertChunk"
    /\ lastCall'.c.Path = rel(ix.RepoRoot, wk[w].path)
    /\ lastCall'.c.Summary = wk[w].summary
    /\ lastCall'.vec = wk[w].vec

\* C23 as stated: when a summary is needed and Summarize fails or answers
\* blank, the indexer takes the heuristic summary of the chunk content, still
\* embeds that summary and still upserts the chunk.
C23_HeuristicEmbedded ==
  [][ \A w \in Workers : wk[w].summarizeFailed =>
        /\ wk[w].summary = summarizeHeuristic(ChunkOf(w).Content)
        /\ wk[w].pc \in {"embed", "upsert"}
        /\ wk[w].pc = "upsert" =>
             /\ wk[w].embedCalls = 1
             /\ wk[w].vec \in EmbedOutcomes(ix.Provider, ix.Dim, wk[w].summary)
        /\ UpsertsItem(w) ]_vars

\* C23 amended: when a summary is needed and Summarize fails or answers
\* blank, the indexer takes the heuristic summary of the chunk content and
\* still upserts the chunk; it embeds that summary when an embedding is
\* needed, and upserts without a vector when it is not.
C23_HeuristicFallback ==
  [][ \A w \in Workers : wk[w].summarizeFailed =>
        /\ wk[w].summary = summarizeHeuristic(ChunkOf(w).Content)
        /\ wk[w].pc \in {"embed", "upsert"}
        /\ wk[w].pc = "upsert" =>
             IF wk[w].needEmbed
             THEN /\ wk[w].embedCalls = 1
                  /\ wk[w].vec \in EmbedOutcomes(ix.Provider, ix.Dim, wk[w].summary)
             ELSE /\ wk[w].embedCalls = 0
                  /\ wk[w].vec = NoVec
        /\ UpsertsItem(w) ]_vars

\* the heuristic summary of a chunk has been embedded after Summarize failed,
\* and the chunk is about to be upserted with it
C23_Witness ==
  \E w \in Workers :
    /\ wk[w].summarizeFailed
    /\ wk[w].pc = "upsert"
    /\ wk[w].summary = <<"x">>
    /\ wk[w].vec = [dim |-> ix.Dim, of |-> <<"x">>]

\* C24: when an embedding is needed and Embed fails, the indexer still calls
\* UpsertChunk, with no vector and with the new content, hash and summary, so
\* that the stored content, content_hash and summary are the new ones while
\* the stored vector is left as it was.
C24_EmbedErrorKeepsVector ==
  [][ \A w \in Workers :
        ( /\ wk[w].pc = "upsert"
          /\ wk[w].needEmbed
          /\ wk[w].vec = NoVec
          /\ wk'[w].pc # "upsert" ) =>
          LET c      == ChunkModel(w)
              key    == <<c.Repository, c.Ref, c.Path, c.LineStart, c.LineEnd>>
              before == {r \in rows : KeyOf(r) = key}
              after  == {r \in rows' : KeyOf(r) = key}
          IN  /\ lastCall'.op = "UpsertChunk"
              /\ lastCall'.c = c
              /\ lastCall'.vec = NoVec
              /\ lastCall'.hash = hashContent(wk[w].content)
              /\ \E r \in after :
                   /\ r.content = wk[w].content
                   /\ r.content_hash = hashContent(wk[w].content)
                   /\ r.summary = wk[w].summary
                   /\ \/ before = {} /\ r.summary_vec = NoVec
                      \/ \E old \in before : r.summary_vec = old.summary_vec ]_vars

\* C29: in every store state indexing runs reach, also with Embed and
\* Summarize failing, the vector a row holds is the embedding of the summary
\* the row holds, and that summary was made from the content the row holds:
\* no row keeps a vector or a summary of earlier content.
C29_VectorOfSummary ==
  \A r \in rows :
    /\ r.summary_vec # NoVec => r.summary_vec.of = r.summary
    /\ r.summary \in {ModelSummary, summarizeHeuristic(r.content)}

\* in how many places of the pool the work item of path p is: slots of the
\* channel, workers inside processWorkItem, finished upserts
PlacesOf(p) ==
  Cardinality({i \in DOMAIN workChan : workChan[i].path = p})
    + Cardinality({w \in Workers : wk[w].pc \notin {"recv", "exit"} /\ wk[w].path = p})
    + (IF p \in fileLog.upserted THEN 1 ELSE 0)

\* C25: in a run that is not cancelled, every work item sent is received by
\* exactly one worker and processed exactly once, Run returns only after
\* every item sent has gone through to its UpsertChunk call, and the channel
\* never holds more than 2 * numWorkers items.
C25_EachItemOnce ==
  ~ctxDone =>
    /\ Len(workChan) <= 2 * NumWorkers
    /\ \A p \in fileLog.sent : PlacesOf(p) = 1
    /\ \A p \in DOMAIN tree \ fileLog.sent : PlacesOf(p) = 0
    /\ (runPc = "idle" /\ runRet # "none") => fileLog.upserted = fileLog.sent

\* a run that was not cancelled has returned nil after the five files, one
\* more than the channel holds, were sent and upserted
C25_Witness ==
  /\ runPc = "idle"
  /\ runRet = "nil"
  /\ ~ctxDone
  /\ fileLog.sent = DOMAIN tree
  /\ fileLog.upserted = DOMAIN tree
  /\ Cardinality(DOMAIN tree) > ChanCap

\* C26: once the context is cancelled the walker sends no further work item
\* and no worker starts on an item it takes from the channel afterwards,
\* whether the channel has room or still holds items.
C26_CancelStopsWork ==
  [][ ctxDone =>
        /\ fileLog'.sent = fileLog.sent
        /\ \A w \in Workers : ~(wk[w].pc = "recv" /\ wk'[w].pc = "meta") ]_vars

\* C27: Run terminates on a finite tree when every model and store call
\* returns: the channel is closed once, by the step that ends the walk,
\* nothing is sent on it afterwards, and every run entered comes to the point
\* where all workers have left their loop and Run has returned; also when
\* the walker fails and when the context is cancelled on a full channel.
C27_RunTerminates ==
  /\ [][ /\ (~chanClosed /\ chanClosed') => (runPc = "walk" /\ runPc' = "wait")
         /\ chanClosed => /\ chanClosed'
                          /\ runPc # "walk"
                          /\ fileLog'.sent = fileLog.sent
                          /\ Len(workChan') <= Len(workChan) ]_vars
  /\ (runPc = "walk") ~> ( /\ runPc = "idle"
                           /\ runRet # "none"
                           /\ chanClosed
                           /\ workChan = <<>>
                           /\ \A w \in Workers : wk[w].pc = "exit" )

\* a run cancelled after the walker had filled the channel has returned the
\* context's error, its workers gone, the four items sent all upserted
C27_Witness ==
  /\ runPc = "idle"
  /\ runRet = "walkErr"
  /\ ctxDone
  /\ chanClosed
  /\ \A w \in Workers : wk[w].pc = "exit"
  /\ Cardinality(fileLog.sent) = ChanCap
  /\ fileLog.upserted = fileLog.sent

\* C28: when two upserts of one key run concurrently, whichever commits
\* last, the store ends with exactly one row of that key, holding the
\* content, language and content_hash of the upsert that committed last, a
\* summary if either brought one and a vector if either brought one.
C28_ConcurrentUpserts ==
  [][ ( /\ schemaDim # 0
        /\ lastCall.op = "UpsertChunk"
        /\ lastCall'.op = "UpsertChunk"
        /\ CallKey(lastCall') = CallKey(lastCall) ) =>
        LET hits == {r \in rows' : KeyOf(r) = CallKey(lastCall')}
        IN  /\ Cardinality(hits) = 1
            /\ \A r \in hits :
                 /\ r.content = lastCall'.c.Content
                 /\ r.language = lastCall'.c.Language
                 /\ r.content_hash = lastCall'.hash
                 /\ (lastCall.c.Summary # <<>> \/ lastCall'.c.Summary # <<>>)
                      => r.summary # <<>>
                 /\ (lastCall.vec # NoVec \/ lastCall'.vec # NoVec)
                      => r.summary_vec # NoVec ]_vars

====
